---- MODULE Spec2Model ----
(***************************************************************************)
(* A model of the Go data-structures tutorial: the interactive menu        *)
(* dispatcher (datastructures/main.go), the topic runners and their        *)
(* demonstration functions (arrays/slices, maps, structs, new vs make),    *)
(* the fmt demonstration program and the defer examples.                   *)
(*                                                                         *)
(* Standard output is a stream the program only appends to; the model      *)
(* keeps the chunk written by the latest step in `emit`.  A function body  *)
(* is the sequence of its statements that write output or change state,    *)
(* executed one statement per step from the continuation `todo`.           *)
(***************************************************************************)
EXTENDS Integers, Sequences, FiniteSets, TLC

VARIABLES
    pc,        \* dispatcher position: "menu" (top of the for loop, main.go:19),
               \* "read" (blocked in ReadString, :29), "run" (inside the switch, :32-48),
               \* "after" (switch left, :50), "pause" (blocked in ReadString, :52), "exited";
               \* "idle"/"test" when a demonstration function is driven directly
    eof,       \* standard input is exhausted: every further ReadString returns "" and an error
    input,     \* main's local `input` after TrimSpace (NoLine before the read and once
               \* the switch is left: the variable is not read again)
    lastLine,  \* history: the string ReadString returned in the latest step (NoLine
               \* when the latest step read nothing)
    lastAt,    \* history: the prompt that read was made at ("choice", "pause", "none")
    reads,     \* history: ReadString calls since the menu was last displayed
    compared,  \* history: of those, the lines handed to the switch
    calls,     \* history: runner call/return events of the switch statement being executed
    todo,      \* continuation: the statements still to execute, innermost function first
    dstack,    \* one list of deferred statements per active function call (innermost first)
    emit,      \* the chunk written to standard output by the latest step
    nout,      \* number of chunks written by the invocation under test (0 outside tests)
    i,         \* loop variable of the running counted for loop
    cache,     \* MapPatternCache's local map cache (of the latest call)
    fibStack,  \* call stack of the fib closure
    ret,       \* return value of the latest fib call (NoRet before any)
    hits,      \* history: the n of every "Cache hit for fib(n)" line of the latest call
    files,     \* the working directory: file name -> content
    files0,    \* history: `files` when the current invocation started
    erred,     \* history: the current invocation took an error branch
    panicking, \* the value of the panic being propagated (NoPanic when none)
    prior,     \* history: MapPatternCache has printed its cache before in this process
    stored,    \* history: the n of every cache[n] = result of the latest fib run, in order
    heap,      \* the arrays and variables allocated by the running lesson program
    loc,       \* the local variables of the running lesson program
    log,       \* history: the chunks written by the running defer example, in order
    env,       \* the named local variables of each function being executed, innermost first
    fn,        \* the demonstration function under test
    run,       \* which invocation of fn is running (1 or 2; 0 none)
    obs,       \* history: one output chunk of the first invocation, with its index
    again,     \* history: the chunk at the same index in the second invocation
    loopvar    \* the build's for-loop variable semantics: "shared" (one variable per
               \* loop, before Go 1.22) or "fresh" (one per iteration)

vars == <<pc, eof, input, lastLine, lastAt, reads, compared, calls, todo, dstack,
          emit, nout, i, cache, fibStack, ret, hits, files, files0, erred,
          panicking, prior, stored, heap, loc, log, env, fn, run, obs, again, loopvar>>

dispVars == <<pc, eof, input, lastLine, lastAt, reads, compared>>
execVars == <<todo, dstack, emit, nout, i, cache, fibStack, ret, hits, files, erred,
              panicking, prior, stored, calls>>
testVars == <<fn, run, obs, again, files0>>

-----------------------------------------------------------------------------
(* Bounds of the model *)

\* longest input line (without its newline) the environment types
MaxLen == 3
\* number of distinct heap addresses an allocation may be given
NAddr == 2

-----------------------------------------------------------------------------
(* Strings are sequences of one-character strings. *)

NoLine == <<"<none>">>
NoRet == 0 - 1
None == [at |-> -1, out |-> <<>>]

\* unicode.IsSpace for Latin-1: '\t', '\n', '\v', '\f', '\r', ' ', U+0085, U+00A0
WhiteSpace == {"\t", "\n", "\\v", "\f", "\r", " ", "U+0085", "U+00A0"}

RECURSIVE TrimLeft(_)
TrimLeft(s) ==
    IF s # <<>> /\ Head(s) \in WhiteSpace THEN TrimLeft(Tail(s)) ELSE s

RECURSIVE TrimRight(_)
TrimRight(s) ==
    IF s # <<>> /\ s[Len(s)] \in WhiteSpace
    THEN TrimRight(SubSeq(s, 1, Len(s) - 1))
    ELSE s

\* a trim of trailing white space only
TrimSpace_RightOnly(s) == TrimRight(s)

\* strings.TrimSpace: all leading and trailing white space removed
TrimSpace(s) == TrimRight(TrimLeft(s))

\* The characters the environment types on a line
Alphabet == {"0", "1", "2", "3", "4", "5", "6", "+", ".", " ", "\r"}

RECURSIVE StringsUpTo(_)
StringsUpTo(n) ==
    IF n = 0 THEN {<<>>}
    ELSE LET S == StringsUpTo(n - 1)
         IN  S \cup {Append(s, c) : s \in {t \in S : Len(t) = n - 1}, c \in Alphabet}

Bodies == StringsUpTo(MaxLen)

\* bufio.Reader.ReadString('\n'): the bytes up to and including the delimiter;
\* at end of input the bytes before it and an error (ignored by main)
ReadString(body, delimited) == IF delimited THEN Append(body, "\n") ELSE body

-----------------------------------------------------------------------------
(* Statements *)

L(s) == [k |-> "lit", a |-> s, m |-> <<>>]           \* print of fixed or computed text
P(s) == [k |-> "ptr", a |-> s, m |-> <<>>]           \* print that shows a pointer value
PM(s, mp) == [k |-> "printMap", a |-> s, m |-> mp]   \* print of a map with %v
RG(s, mp) == [k |-> "range", a |-> s, m |-> mp]      \* for ... range over a map, printing
FOR(s, mp) == [k |-> "for", a |-> s, m |-> mp]       \* counted for loop, printing
Call(f) == [k |-> "call", a |-> f, m |-> <<>>]
Ret(f) == [k |-> "ret", a |-> f, m |-> <<>>]
Op(kind) == [k |-> kind, a |-> kind, m |-> <<>>]
D(s) == [k |-> "defer", a |-> s, m |-> <<>>]         \* defer of a print of s
Set(name, v) == [k |-> "set", a |-> name, m |-> v]   \* name := v, name = v
DC(f, name) == [k |-> "defer", a |-> f, m |-> <<"var", name>>]  \* defer f(name)
CallWith(f, arg) == [k |-> "callWith", a |-> f, m |-> arg]     \* f(arg)
PV(s, name) == [k |-> "printVar", a |-> s, m |-> name]         \* Printf(s + "%s", name)

-----------------------------------------------------------------------------
(* Printing of maps *)

\* Go's string order on the keys the demonstrations use
KeyOrder ==
    <<"1", "2", "3", "Alice", "Bob", "Charlie", "Diana", "a", "apple", "b",
      "banana", "c", "cherry", "col1", "col2", "d", "key", "one", "orange",
      "origin", "row1", "row2", "two">>

KeyRank(key) == CHOOSE r \in 1..Len(KeyOrder) : KeyOrder[r] = key

RECURSIVE Flatten(_)
Flatten(pairs) ==
    IF pairs = <<>> THEN <<>> ELSE Head(pairs) \o Flatten(Tail(pairs))

\* The entries of mp in the order the iteration visits them: the order is
\* not specified and may differ from one iteration to the next
IterOrder(mp, p) == [j \in 1..Len(mp) |-> mp[p[j]]]

FmtMap_Unsorted(mp, p) == Flatten(IterOrder(mp, p))

\* fmt's %v of a map prints the entries sorted by key, whatever the iteration order
FmtMap(mp, p) ==
    Flatten(SortSeq(IterOrder(mp, p), LAMBDA x, y : KeyRank(x[1]) < KeyRank(y[1])))

-----------------------------------------------------------------------------
(* datastructures/maps.go *)

MapBasics ==
    << L("=== MAP BASICS ==="),
       PM("Nil map: %v, len=0, is nil? true", <<>>),
       PM("Map literal: %v", << <<"apple", "5">>, <<"banana", "3">>, <<"orange", "7">> >>),
       PM("Empty map with make(): %v, len=0", <<>>),
       PM("Map with capacity hint: %v, len=0", <<>>) >>

MapOperations ==
    << L("=== MAP OPERATIONS ==="),
       PM("After inserts: %v", << <<"Alice", "95">>, <<"Bob", "87">>, <<"Charlie", "92">> >>),
       PM("After update: %v", << <<"Alice", "98">>, <<"Bob", "87">>, <<"Charlie", "92">> >>),
       L("Alice's score: 98"),
       L("Non-existent key returns: 0 (zero value)"),
       L("Alice exists with score: 98"),
       L("David doesn't exist, got zero value: 0"),
       PM("After deleting Bob: %v", << <<"Alice", "98">>, <<"Charlie", "92">> >>),
       PM("After deleting non-existent key: %v", << <<"Alice", "98">>, <<"Charlie", "92">> >>),
       L("Number of entries: 2") >>

ages == << <<"Alice", "30">>, <<"Bob", "25">>, <<"Charlie", "35">>, <<"Diana", "28">> >>

MapIteration ==
    << L("=== MAP ITERATION ==="),
       L("Iterate over key-value pairs:"),
       RG("  %s is %d years old", ages),
       L("Iterate over keys only:"),
       RG("  %s", ages),
       L("Iteration order is random (run multiple times):"),
       FOR("Run", ages) >>

MapWithComplexTypes ==
    << L("=== MAPS WITH COMPLEX TYPES ==="),
       PM("Map with struct values: %v", << <<"Alice", "{30 NYC}">>, <<"Bob", "{25 LA}">> >>),
       PM("Map with slice values: %v", << <<"Alice", "[95 87 92]">>, <<"Bob", "[88 91 85]">> >>),
       PM("Nested map: %v", << <<"row1", "map[col1:1 col2:2]">>, <<"row2", "map[col1:3 col2:4]">> >>),
       L("matrix[row1][col2] = 2"),
       PM("Map with int keys: %v", << <<"1", "one">>, <<"2", "two">>, <<"3", "three">> >>) >>

MapPatternGrouping ==
    << L("=== PATTERN: GROUPING ==="),
       L("Words grouped by first letter:"),
       RG("  %c: %v", << <<"a", "[apple apricot]">>, <<"b", "[banana blueberry]">>,
                        <<"c", "[cherry coconut]">> >>) >>

MapPatternCounting ==
    << L("=== PATTERN: COUNTING ==="),
       L("Word counts:"),
       RG("  %s: %d", << <<"apple", "3">>, <<"banana", "2">>, <<"cherry", "1">> >>) >>

MapPatternSet ==
    << L("=== PATTERN: SET (Using Maps) ==="),
       PM("Set (using map[string]bool): %v", << <<"apple", "true">>, <<"banana", "true">> >>),
       L("  'apple' is in the set"),
       L("Set (using map[string]struct{}):"),
       RG("  - %s", << <<"apple", "{}">>, <<"banana", "{}">> >>),
       PM("Union of {a,b,c} and {b,c,d}: %v",
          << <<"a", "true">>, <<"b", "true">>, <<"c", "true">>, <<"d", "true">> >>),
       PM("Intersection: %v", << <<"b", "true">>, <<"c", "true">> >>) >>

\* the argument of the fib call the demonstration makes
FibN == 10

MapPatternCache ==
    << L("=== PATTERN: CACHING/MEMOIZATION ==="),
       Op("makeCache"),
       L("Computing fib(10) with caching:"),
       Op("fib"),
       Op("printResult"),
       Op("printCache") >>

MapGotchas ==
    << L("=== COMMON GOTCHAS ==="),
       L("Gotcha 1: Cannot assign to nil map"),
       L("nilMap is nil: true"),
       L("  (Attempting to assign would cause panic)"),
       PM("After make(): %v", << <<"key", "1">> >>),
       L("Gotcha 2: Maps are not concurrent-safe"),
       L("  (Need sync.Mutex or sync.Map for concurrent access)"),
       L("Gotcha 3: Cannot take address of map elements"),
       PM("Modified point: %v", << <<"origin", "{10 0}">> >>),
       P("With pointer values: map[origin:%p]"),
       L("Gotcha 4: Zero values vs non-existent keys"),
       L("Alice: 0, Bob: 0 (both are 0!)"),
       L("  Alice exists"),
       L("  Bob doesn't exist") >>

RunMaps ==
    << L("============================================================"),
       L("MAPS IN GO"),
       L("============================================================"),
       Call("MapBasics"), Call("MapOperations"), Call("MapIteration"),
       Call("MapWithComplexTypes"), Call("MapPatternGrouping"),
       Call("MapPatternCounting"), Call("MapPatternSet"), Call("MapPatternCache"),
       Call("MapGotchas") >>

-----------------------------------------------------------------------------
(* The arrays and slices lesson (second file of fmt_demo.go) *)

ArrayBasics ==
    << L("=== ARRAY BASICS ==="),
       L("Empty array: [0 0 0 0 0]"),
       L("Initialized array: [1 2 3 4 5]"),
       L("Auto-sized array: [10 20 30] (length: 3)"),
       L("First element: 1, Last element: 5"),
       L("Original: [1 2 3 4 5], Copy: [999 2 3 4 5] (independent)") >>

SliceBasics ==
    << L("=== SLICE BASICS ==="),
       L("Nil slice: [], len=0, cap=0, is nil? true"),
       L("Slice literal: [1 2 3 4 5], len=5, cap=5"),
       L("make([]int, 5): [0 0 0 0 0], len=5, cap=5"),
       L("make([]int, 3, 10): [0 0 0], len=3, cap=10"),
       L("make([]int, 5) UPDATED: [0 0 0 0 0 100 101 102 103 104 105], len=11, cap=20"),
       L("make([]int, 3, 10) UPDATED: [0 0 0 694], len=4, cap=10"),
       L("Original: [999 2 3 4 5], Reference: [999 2 3 4 5] (shared backing array)") >>

SliceOperations ==
    << L("=== SLICE OPERATIONS ==="),
       L("Original: [10 20 30 40 50]"),
       L("slice[1:3]: [20 30] (elements at index 1, 2)"),
       L("slice[:3]: [10 20 30] (from start to index 3)"),
       L("slice[2:]: [30 40 50] (from index 2 to end)"),
       L("slice[:]: [10 20 30 40 50] (entire slice)"),
       L("After append(60): [10 20 30 40 50 60], len=6, cap=10"),
       L("After append(70,80,90): [10 20 30 40 50 60 70 80 90], len=9, cap=10"),
       L("After append(slice...): [10 20 30 40 50 60 70 80 90 100 110]"),
       L("Copied 3 elements: dest=[1 2 3]"),
       L("After deleting index 2: [10 20 40 50 60 70 80 90 100 110]") >>

SliceCapacityAndGrowth ==
    << L("=== SLICE CAPACITY & GROWTH ==="),
       L("Initial: len=0, cap=0"),
       FOR("append", <<>>),
       L("Pre-allocated slice:"),
       FOR("prealloc", <<>>) >>

SlicePatternFilter ==
    << L("=== PATTERN: FILTERING ==="),
       L("Original: [1 2 3 4 5 6 7 8 9 10]"),
       L("Even numbers: [2 4 6 8 10]"),
       L("Numbers > 5 (in-place): [6 7 8 9 10]") >>

SlicePatternMap ==
    << L("=== PATTERN: MAPPING ==="),
       L("Original: [1 2 3 4 5]"),
       L("Doubled: [2 4 6 8 10]"),
       L("As strings: [Number-1 Number-2 Number-3 Number-4 Number-5]") >>

SlicePatternReduce ==
    << L("=== PATTERN: REDUCING ==="),
       L("Numbers: [1 2 3 4 5 6 7 8 9 10]"),
       L("Sum: 55"),
       L("Maximum: 10"),
       L("Count of numbers > 5: 5") >>

SliceGotchas ==
    << L("=== COMMON GOTCHAS ==="),
       L("Gotcha 1: Shared backing arrays"),
       L("Original: [1 2 3 4 5], Sub: [1 2]"),
       L("After append to sub:"),
       L("Original: [1 2 999 4 5] (MODIFIED!)"),
       L("Sub: [1 2 999]"),
       L("Solution: Limit capacity with [low:high:max]"),
       L("Original: [1 2 3 4 5], Sub: [1 2], cap(sub)=2"),
       L("After append to sub:"),
       L("Original: [1 2 3 4 5] (UNCHANGED)"),
       L("Sub: [1 2 999]"),
       L("Gotcha 2: Range variable reuse"),
       Op("derefLoopVar"),
       L("Values via pointers (CORRECT): 1 2 3 ") >>

RunArraysSlices ==
    << L("============================================================"),
       L("ARRAYS AND SLICES IN GO"),
       L("============================================================"),
       Call("ArrayBasics"),
       Call("SliceBasics"),
       Call("SliceOperations"),
       Call("SliceCapacityAndGrowth"),
       Call("SlicePatternFilter"),
       Call("SlicePatternMap"),
       Call("SlicePatternReduce"),
       Call("SliceGotchas") >>

-----------------------------------------------------------------------------
(* The structs lesson (unnamed/part_001) *)

StructBasics ==
    << L("=== STRUCT BASICS ==="),
       L("Zero value: {Name: Age:0 City:}"),
       L("With field names: {Name:Alice Age:30 City:NYC}"),
       L("Without field names: {Name:Bob Age:25 City:LA}"),
       L("Partial init: {Name:Charlie Age:35 City:}"),
       L("Accessing fields:"),
       L("  Name: Alice"),
       L("  Age: 30"),
       L("After modification: {Name:Alice Age:31 City:NYC}") >>

StructPointers ==
    << L("=== STRUCT POINTERS ==="),
       L("Original: {Name:Alice Age:30 City:}"),
       P("Pointer: %p, Value: {Name:Alice Age:30 City:}"),
       L("After modification via pointer: {Name:Alice Age:32 City:}"),
       P("Created with new(): %p, Value: {Name: Age:0 City:}"),
       L("After setting fields: {Name:Bob Age:0 City:}"),
       L("Pointer to literal: {Name:Charlie Age:35 City:}") >>

StructComparison ==
    << L("=== STRUCT COMPARISON ==="),
       L("p1 == p2: true"),
       L("p1 == p3: false"),
       L("  (Structs with slices/maps cannot be compared with ==)") >>

StructEmbedding ==
    << L("=== STRUCT EMBEDDING (Composition) ==="),
       L("Employee: {Person:{Name:Alice Age:30 City:NYC} EmployeeID:12345 Department:Engineering}"),
       L("Name (promoted): Alice"),
       L("Age (promoted): 30"),
       L("EmployeeID: 12345"),
       L("Name (via Person): Alice"),
       L("  Person: Alice, 30 years old") >>

\* Point has a String method, which %+v uses
StructMethods ==
    << L("=== STRUCT METHODS ==="),
       L("Point: Point(3, 4)"),
       L("Distance from origin: 25.00"),
       L("After scaling by 2: Point(6, 8)"),
       L("After scaling: Point(3, 3)") >>

StructTags ==
    << L("=== STRUCT TAGS ==="),
       L("User struct: {ID:1 Name:Alice Email: Password:secret123 CreatedAt:}"),
       L("  (Tags are metadata for packages like encoding/json)"),
       L("  - json:id maps field to JSON key"),
       L("  - json:- excludes field from JSON"),
       L("  - json:email,omitempty omits if zero value") >>

StructPatternConstructor ==
    << L("=== PATTERN: CONSTRUCTOR FUNCTIONS ==="),
       L("Created with constructor: {Name:Alice Age:30 City:Unknown}"),
       L("Invalid person: <nil>") >>

StructPatternBuilder ==
    << L("=== PATTERN: BUILDER (Functional Options) ==="),
       L("Config: {Host:example.com Port:9090 Timeout:30 Debug:true}") >>

StructPatternAnonymous ==
    << L("=== PATTERN: ANONYMOUS STRUCTS ==="),
       L("Anonymous struct: {X:10 Y:20}"),
       L("Config: {Enabled:true Count:42}"),
       L("Table-driven test structure:"),
       L("  zero: 0^2 = 0 (expected 0)"),
       L("  positive: 5^2 = 25 (expected 25)"),
       L("  negative: -3^2 = 9 (expected 9)") >>

StructGotchas ==
    << L("=== COMMON GOTCHAS ==="),
       L("Gotcha 1: Structs are copied by value"),
       L("Original: {Name:Alice Age:30 City:}"),
       L("Copy: {Name:Alice Age:31 City:} (independent)"),
       L("After pointer modification: {Name:Alice Age:32 City:}"),
       L("Gotcha 2: Structs with uncomparable fields"),
       L("  Cannot use == on structs containing slices/maps/functions"),
       L("Gotcha 3: Value vs Pointer receivers"),
       L("  Value receivers: Work on copies, can't modify original"),
       L("  Pointer receivers: Can modify original, more efficient for large structs"),
       L("Gotcha 4: Zero values can be problematic"),
       L("Zero Person: {Name: Age:0 City:}"),
       L("  Empty strings and 0 might not be valid business values"),
       L("  Use constructor functions for validation and defaults") >>

RunStructs ==
    << L("============================================================"),
       L("STRUCTS IN GO"),
       L("============================================================"),
       Call("StructBasics"),
       Call("StructPointers"),
       Call("StructComparison"),
       Call("StructEmbedding"),
       Call("StructMethods"),
       Call("StructTags"),
       Call("StructPatternConstructor"),
       Call("StructPatternBuilder"),
       Call("StructPatternAnonymous"),
       Call("StructGotchas") >>

-----------------------------------------------------------------------------
(* datastructures/new_vs_make.go *)

\* %v of a *int or *string is the address; of a pointer to a struct or slice, & and the value
NewBasics ==
    << L("=== new() FUNCTION ==="),
       P("new(int): %v, value: 0, type: *int"),
       L("After assignment: 42"),
       P("new(string): %v, value: (empty), type: *string"),
       L("new(Person): &{ 0}, value: {Name: Age:0}, type: *main.Person"),
       L("After setting fields: {Name:Alice Age:30}"),
       L("new([]int): &[], value: [], is nil? true") >>

MakeBasics ==
    << L("=== make() FUNCTION ==="),
       L("Slices:"),
       L("make([]int, 5): [0 0 0 0 0], len=5, cap=5, type: []int"),
       L("make([]int, 3, 10): [0 0 0], len=3, cap=10"),
       L("Maps:"),
       PM("make(map[string]int): %v, len=0, type: map[string]int", <<>>),
       PM("make(map[string]int, 100): %v, len=0", <<>>),
       PM("After insertion: %v", << <<"key", "42">> >>) >>

NewVsMakeComparison ==
    << L("=== new() vs make() COMPARISON ==="),
       L("1. WITH SLICES:"),
       L("new([]int):"),
       L("  Type: *[]int (pointer to slice)"),
       L("  Value: &[] (pointer to nil slice)"),
       L("  Dereferenced: [], is nil? true"),
       L("  After append: [1 2 3]"),
       L("make([]int, 3, 5):"),
       L("  Type: []int (slice, not pointer)"),
       L("  Value: [0 0 0]"),
       L("  Length: 3, Capacity: 5"),
       L("  After operations: [10 0 0 20]"),
       L("2. WITH MAPS:"),
       L("new(map[string]int):"),
       L("  Type: *map[string]int (pointer to map)"),
       L("  Value: &map[] (pointer to nil map)"),
       PM("  Dereferenced: %v, is nil? true", <<>>),
       PM("  After make and assign: %v", << <<"key", "42">> >>),
       L("make(map[string]int):"),
       L("  Type: map[string]int (map, not pointer)"),
       PM("  Value: %v", <<>>),
       PM("  After insert: %v", << <<"key", "42">> >>),
       L("3. WITH STRUCTS:"),
       L("new(Point):"),
       L("  Type: *main.Point (pointer to struct)"),
       L("  Value: {X:0 Y:0}"),
       L("  After modification: {X:10 Y:0}"),
       L("make(Point): NOT ALLOWED (compilation error)"),
       L("  make() only works with slices, maps, and channels"),
       L("Struct literal: {X:5 Y:10} (type: main.Point)"),
       L("Pointer to literal: {X:5 Y:10} (type: *main.Point)") >>

WhenToUseWhat ==
    << L("=== WHEN TO USE WHAT ==="),
       L("Use make() for:"),
       L("  Slices   - make([]T, len, cap)"),
       L("  Maps     - make(map[K]V)"),
       L("  Channels - make(chan T)"),
       L("  Returns initialized, ready-to-use value"),
       L("Use new() for:"),
       L("  Any type when you need a pointer to zero value"),
       L("  Rarely used in practice"),
       L("  Returns pointer to zeroed memory"),
       L("In practice:"),
       L("  Slices: Use make() or literal []T{}"),
       L("  Maps: Use make() or literal map[K]V{}"),
       L("  Structs: Use literal T{} or &T{}"),
       L("  new() is rarely needed") >>

PracticalExamples ==
    << L("=== PRACTICAL EXAMPLES ==="),
       L("Creating slices (IDIOMATIC):"),
       L("  nil slice: []"),
       L("  empty literal: []"),
       L("  make empty: []"),
       L("  sized slice: len=10, cap=10"),
       L("  initialized: [1 2 3 4 5]"),
       L("Creating maps (IDIOMATIC):"),
       PM("  nil map: %v (can't insert!)", <<>>),
       PM("  empty map: %v (ready to use)", <<>>),
       PM("  initialized: %v", << <<"one", "1">>, <<"two", "2">> >>),
       L("Creating structs (IDIOMATIC):"),
       L("  zero value: {Host: Port:0}"),
       L("  literal: {Host:localhost Port:8080}"),
       L("  pointer to literal: {Host:example.com Port:443}"),
       L("  with new: {Host: Port:0}") >>

MemoryAllocationDetails ==
    << L("=== MEMORY ALLOCATION DETAILS ==="),
       P("new(int): address=%p, value=0"),
       P("var + &:  address=%p, value=0"),
       L("make([]int, 3, 5):"),
       L("  Slice header: len=3, cap=5"),
       L("  Backing array allocated with capacity 5"),
       L("  Elements initialized to zero: [0 0 0]"),
       L("make(map[string]int, 100):"),
       L("  Hash table allocated with space for ~100 elements"),
       PM("  Ready for immediate use: %v", <<>>) >>

CommonMistakes ==
    << L("=== COMMON MISTAKES ==="),
       L("Mistake 1: Trying to use new() with maps"),
       L("  new(map[string]int) creates: *map[string]int"),
       L("  Value: &map[] (pointer to nil map)"),
       L("  Can't insert - map is nil!"),
       PM("  make(map[string]int) works: %v", << <<"key", "1">> >>),
       L("Mistake 2: Trying to use make() with structs"),
       L("  make(Point) doesn't compile"),
       L("  Use Point{} or new(Point) instead"),
       L("Mistake 3: Forgetting new() returns pointer"),
       L("  new(int) returns: *int (need to dereference)"),
       L("  Dereferenced value: 0 (type: int)") >>

RunNewVsMake ==
    << L("============================================================"),
       L("new() vs make() IN GO"),
       L("============================================================"),
       Call("NewBasics"),
       Call("MakeBasics"),
       Call("NewVsMakeComparison"),
       Call("WhenToUseWhat"),
       Call("PracticalExamples"),
       Call("MemoryAllocationDetails"),
       Call("CommonMistakes") >>

-----------------------------------------------------------------------------
(* datastructures/main.go: RunAll *)

\* RunAll with the maps lesson first
RunAll_Swapped ==
    << Call("RunMaps"),
       Call("RunArraysSlices"),
       Call("RunStructs"),
       Call("RunNewVsMake"),
       L("============================================================"),
       L("ALL EXAMPLES COMPLETED!"),
       L("============================================================") >>

RunAll ==
    << Call("RunArraysSlices"),
       Call("RunMaps"),
       Call("RunStructs"),
       Call("RunNewVsMake"),
       L("============================================================"),
       L("ALL EXAMPLES COMPLETED!"),
       L("============================================================") >>

-----------------------------------------------------------------------------
(* The statements of every function *)

-----------------------------------------------------------------------------
(* The fmt demonstration program (first file of fmt_demo.go) *)

\* a slice under %p, a channel and a function under %v print as addresses; quotation
\* marks in the text and the degree sign of Temperature are written in ASCII
fmtDemoMain ==
    << L("=== Go fmt Package Deep Dive ===="),
       L("1. BASIC PRINTING FUNCTIONS:"),
       L("Hello, "),
       L("Go!"),
       L("Hello, Go!"),
       L("Name: Alice, Age: 30, Active: true"),
       L("2. FORMAT VERBS:"),
       L("%v (default): 42"),
       L("%+v (with field names): Nameee:Bob (ageeeee 25)"),
       L("%#v (Go syntax): 42"),
       L("%T (type): int"),
       L("%t (boolean): true"),
       L("%d (decimal): 255"),
       L("%b (binary): 11111111"),
       L("%o (octal): 377"),
       L("%x (hex): ff"),
       L("%X (HEX): FF"),
       L("%#x (hex with 0x): 0xff"),
       L("%U (Unicode): U+00FF"),
       L("%f (decimal): 3.141590"),
       L("%.2f (precision): 3.14"),
       L("%e (scientific): 3.141590e+00"),
       L("%g (general): 3.14159"),
       L("%s (string): Hello 'World'"),
       L("%q (quoted): 'Hello World' quoted"),
       L("%x (hex bytes): 48656c6c6f2022576f726c6422"),
       P("%p (pointer): %p"),
       L("3. WIDTH AND PRECISION:"),
       L("|     hello|        42|      3.14|"),
       L("|hello     |42        |3.14      |"),
       L("00000042"),
       L("    3.10"),
       L("4. FLAGS:"),
       L("Default: 42"),
       L("Plus flag: +42"),
       L("Space flag:  42"),
       L("Sharp flag: 052, 0x2a"),
       L("Minus flag: 42        |"),
       L("Zero flag: 0000000042"),
       L("5. INTERFACE IMPLEMENTATIONS:"),
       L("Stringer: Nameee:Charlie (ageeeee 35)"),
       L("Stringer with %s: Nameee:Charlie (ageeeee 35)"),
       L("Formatter (default): 23.5 C"),
       L("Formatter (float): 23.5 C"),
       L("Formatter (sharp): Temperature(23.5 C)"),
       L("6. ERROR HANDLING:"),
       L("Wrong type: %!d(string=hello)"),
       L("Missing arg: 42 %!s(MISSING)"),
       L("Extra arg: 42 %!(EXTRA string=extra)"),
       L("7. COMPLEX TYPES:"),
       L("Slice: [1 2 3 4]"),
       L("Slice with %+v: [Nameee:A (ageeeee 1) Nameee:B (ageeeee 2)]"),
       PM("Map: %v", << <<"apple", "5">>, <<"banana", "3">> >>),
       PM("Map with %+v: %v", << <<"apple", "5">>, <<"banana", "3">> >>),
       P("Channel: %v"),
       P("Function: %v"),
       L("8. SCANNING FUNCTIONS:"),
       L("Scanned: name=Alice, age=25, score=3.14 (n=3, err=<nil>)"),
       L("9. CUSTOM WRITERS:"),
       L("Wrote 40 bytes to buffer: Formatted output: Bob scored 87.5 points"),
       L("10. ADVANCED TRICKS:"),
       L("Reordering: 42 hello 3.140000"),
       L("Dynamic width/precision:    3.142"),
       L("Format string reconstruction:    3.142"),
       L("11. PERFORMANCE:"),
       L("Sprintf result: Name: David, Age: 40"),
       L("Concatenation result: Name: David, Age: 40"),
       L("12. TYPE REFLECTION:"),
       L("Type of x: int"),
       L("Value of x: 42"),
       L("Type of x: string"),
       L("Value of x: hello"),
       L("Type of x: []int"),
       L("Value of x: [1 2 3]"),
       L("reflect.Value: [10 20 30]"),
       L("=== End of fmt Package Demo ====") >>

-----------------------------------------------------------------------------
(* The defer examples (first file of unnamed/part_003) *)

simpleDeferExample ==
    << L("Function started"),
       D("First defer (executed last)"),
       D("Second defer"),
       D("Third defer (executed first)"),
       D("Third defer (executed firsttttt)"),
       L("Function ending") >>

fileDeferExample ==
    << Op("writeFile"),
       Op("openFile"),
       D("Closing file..."),
       Op("readFile") >>

\* a resource example that creates its file
resourceCleanupExample_Writing ==
    << L("Setting up resources..."),
       Op("writeFile"),
       L("Done with resources") >>

resourceCleanupExample ==
    << L("Setting up resources..."),
       D("Closing database connection..."),
       D("Closing file handle..."),
       D("Closing network connection..."),
       L("Working with resources..."),
       Op("sleep"),
       L("Done with resources") >>

deferWithParametersExample ==
    << Set("message", "Original message"),
       DC("printMessage", "message"),
       Set("message", "Changed message"),
       L("Inside function, after defer setup") >>

printMessage ==
    << PV("Deferred message: ", "msg") >>

\* the closure safeFunction of panicRecoveryExample
safeFunction ==
    << D("recover"),
       L("About to cause a panic..."),
       [k |-> "panic", a |-> "Something went wrong!", m |-> <<>>],
       L("This will not print") >>

panicRecoveryExample ==
    << Call("safeFunction"),
       L("Program continues after recovery") >>

\* main of the defer examples
deferMain ==
    << L("=== Defer Examples ==="),
       L("1. Simple defer - LIFO order:"),
       Call("simpleDeferExample"),
       L("2. File operations with defer:"),
       Call("fileDeferExample"),
       L("3. Resource cleanup with multiple defers:"),
       Call("resourceCleanupExample"),
       L("4. Defer with function parameters:"),
       Call("deferWithParametersExample"),
       L("5. Panic recovery with defer:"),
       Call("panicRecoveryExample") >>


Runners == {"RunArraysSlices", "RunMaps", "RunStructs", "RunNewVsMake", "RunAll"}

Body(f) ==
    CASE f = "MapBasics" -> MapBasics
      [] f = "MapOperations" -> MapOperations
      [] f = "MapIteration" -> MapIteration
      [] f = "MapWithComplexTypes" -> MapWithComplexTypes
      [] f = "MapPatternGrouping" -> MapPatternGrouping
      [] f = "MapPatternCounting" -> MapPatternCounting
      [] f = "MapPatternSet" -> MapPatternSet
      [] f = "MapPatternCache" -> MapPatternCache
      [] f = "MapGotchas" -> MapGotchas
      [] f = "RunMaps" -> RunMaps
      [] f = "ArrayBasics" -> ArrayBasics
      [] f = "SliceBasics" -> SliceBasics
      [] f = "SliceOperations" -> SliceOperations
      [] f = "SliceCapacityAndGrowth" -> SliceCapacityAndGrowth
      [] f = "SlicePatternFilter" -> SlicePatternFilter
      [] f = "SlicePatternMap" -> SlicePatternMap
      [] f = "SlicePatternReduce" -> SlicePatternReduce
      [] f = "SliceGotchas" -> SliceGotchas
      [] f = "RunArraysSlices" -> RunArraysSlices
      [] f = "StructBasics" -> StructBasics
      [] f = "StructPointers" -> StructPointers
      [] f = "StructComparison" -> StructComparison
      [] f = "StructEmbedding" -> StructEmbedding
      [] f = "StructMethods" -> StructMethods
      [] f = "StructTags" -> StructTags
      [] f = "StructPatternConstructor" -> StructPatternConstructor
      [] f = "StructPatternBuilder" -> StructPatternBuilder
      [] f = "StructPatternAnonymous" -> StructPatternAnonymous
      [] f = "StructGotchas" -> StructGotchas
      [] f = "RunStructs" -> RunStructs
      [] f = "NewBasics" -> NewBasics
      [] f = "MakeBasics" -> MakeBasics
      [] f = "NewVsMakeComparison" -> NewVsMakeComparison
      [] f = "WhenToUseWhat" -> WhenToUseWhat
      [] f = "PracticalExamples" -> PracticalExamples
      [] f = "MemoryAllocationDetails" -> MemoryAllocationDetails
      [] f = "CommonMistakes" -> CommonMistakes
      [] f = "RunNewVsMake" -> RunNewVsMake
      [] f = "RunAll" -> RunAll
      [] f = "fmtDemoMain" -> fmtDemoMain
      [] f = "simpleDeferExample" -> simpleDeferExample
      [] f = "fileDeferExample" -> fileDeferExample
      [] f = "resourceCleanupExample" -> resourceCleanupExample
      [] f = "deferWithParametersExample" -> deferWithParametersExample
      [] f = "printMessage" -> printMessage
      [] f = "safeFunction" -> safeFunction
      [] f = "panicRecoveryExample" -> panicRecoveryExample
      [] f = "deferMain" -> deferMain

-----------------------------------------------------------------------------
(* The interpreter: one statement per step *)

NoChunk == <<"<none>">>
NoPanic == "<none>"
NoLoc == [prog |-> "none"]
Addrs == 1..NAddr
Perms(mp) == Permutations(1..Len(mp))

top == Head(todo)
Running == todo # <<>> /\ fibStack = <<>>
\* a chunk is written to standard output
Wrote(chunk) ==
    /\ emit' = chunk
    /\ nout' = IF pc = "test" THEN nout + 1 ELSE nout
    /\ log' = IF pc = "defer" THEN Append(log, chunk) ELSE log
Silent == UNCHANGED <<emit, nout, log>>
Event(kind, f) == IF f \in Runners THEN Append(calls, <<kind, f>>) ELSE calls

\* a call: the callee's statements run before the rest of the caller's
ExecCall ==
    /\ Running /\ top.k = "call"
    /\ todo' = Body(top.a) \o <<Ret(top.a)>> \o Tail(todo)
    /\ dstack' = <<<<>>>> \o dstack
    /\ env' = <<<<>>>> \o env
    /\ calls' = Event("call", top.a)
    /\ Silent
    /\ UNCHANGED <<i, cache, fibStack, ret, hits, files, erred, panicking, prior, stored, heap, loc>>

RECURSIVE DropToRet(_)
\* the continuation from the return of the running function on: the statements
\* a return statement or a panic skips
DropToRet(t) ==
    IF t = <<>> \/ Head(t).k = "ret" THEN t ELSE DropToRet(Tail(t))

\* a return: the deferred statements run first, last deferred first; a panic
\* not recovered by them goes on to the caller's return
ExecRet ==
    /\ Running /\ top.k = "ret"
    /\ IF Head(dstack) # <<>>
       THEN /\ todo' = Head(dstack) \o todo
            /\ dstack' = <<<<>>>> \o Tail(dstack)
            /\ env' = env
            /\ calls' = calls
       ELSE /\ todo' = IF panicking = NoPanic THEN Tail(todo) ELSE DropToRet(Tail(todo))
            /\ dstack' = Tail(dstack)
            /\ env' = Tail(env)
            /\ calls' = Event("ret", top.a)
    /\ Silent
    /\ UNCHANGED <<i, cache, fibStack, ret, hits, files, erred, panicking, prior, stored, heap, loc>>

ExecLit ==
    /\ Running /\ top.k = "lit"
    /\ Wrote(<<top.a>>)
    /\ todo' = Tail(todo)
    /\ UNCHANGED <<dstack, calls, i, cache, fibStack, ret, hits, files, erred, panicking, prior, stored, heap, loc, env>>

\* a pointer prints as the address the allocator chose
ExecPtr ==
    /\ Running /\ top.k = "ptr"
    /\ \E addr \in Addrs : Wrote(<<top.a, ToString(addr)>>)
    /\ todo' = Tail(todo)
    /\ UNCHANGED <<dstack, calls, i, cache, fibStack, ret, hits, files, erred, panicking, prior, stored, heap, loc, env>>

ExecPrintMap ==
    /\ Running /\ top.k = "printMap"
    /\ \E p \in Perms(top.m) : Wrote(<<top.a>> \o FmtMap(top.m, p))
    /\ todo' = Tail(todo)
    /\ UNCHANGED <<dstack, calls, i, cache, fibStack, ret, hits, files, erred, panicking, prior, stored, heap, loc, env>>

\* for k, v := range m { print }: one line per entry, in iteration order
ExecRange ==
    /\ Running /\ top.k = "range"
    /\ \E p \in Perms(top.m) : Wrote(<<top.a>> \o Flatten(IterOrder(top.m, p)))
    /\ todo' = Tail(todo)
    /\ UNCHANGED <<dstack, calls, i, cache, fibStack, ret, hits, files, erred, panicking, prior, stored, heap, loc, env>>

-----------------------------------------------------------------------------
(* Counted for loops *)

\* for i := 0; i < 3; i++ in MapIteration
RunsN == 3
\* for i := 0; i < 10; i++ in SliceCapacityAndGrowth (both loops)
GrowN == 10

LoopBound(name) == IF name = "Run" THEN RunsN ELSE GrowN

LoopNext_Stuck(j) == j

\* the loops' post statement i++
LoopNext(j) == j + 1

\* append's growth of a full backing array: the capacity doubles (below 256
\* elements), or becomes the needed length when that is more
Grow(cap, needed) ==
    IF needed <= cap THEN cap
    ELSE IF needed > 2 * cap THEN needed ELSE 2 * cap

RECURSIVE CapAfter(_)
\* the capacity of a nil slice after n single-element appends
CapAfter(n) == IF n = 0 THEN 0 ELSE Grow(CapAfter(n - 1), n)

LoopOut(h, j, p) ==
    CASE h.a = "Run" ->
           <<"  Run " \o ToString(j + 1) \o ": ">>
             \o [x \in 1..Len(h.m) |-> IterOrder(h.m, p)[x][1]]
      [] h.a = "append" ->
           <<"After append(" \o ToString(j) \o "): len=" \o ToString(j + 1)
               \o ", cap=" \o ToString(CapAfter(j + 1))>>
      [] h.a = "prealloc" ->
           <<"After append(" \o ToString(j) \o "): len=" \o ToString(j + 1)
               \o ", cap=" \o ToString(GrowN) \o " (no reallocation!)">>

ForIter ==
    /\ Running /\ top.k = "for"
    /\ i < LoopBound(top.a)
    /\ \E p \in Perms(top.m) : Wrote(LoopOut(top, i, p))
    /\ i' = LoopNext(i)
    /\ UNCHANGED <<todo, dstack, calls, cache, fibStack, ret, hits, files, erred, panicking, prior, stored, heap, loc, env>>

ForExit ==
    /\ Running /\ top.k = "for"
    /\ ~(i < LoopBound(top.a))
    /\ i' = 0
    /\ todo' = Tail(todo)
    /\ Silent
    /\ UNCHANGED <<dstack, calls, cache, fibStack, ret, hits, files, erred, panicking, prior, stored, heap, loc, env>>

-----------------------------------------------------------------------------
(* MapPatternCache: the memoized fib closure *)

Frame(n) == [n |-> n, st |-> "entry", a |-> 0]

MakeCache_Kept(c) == c

\* cache := make(map[int]int)
MakeCache(c) == <<>>

ExecMakeCache ==
    /\ Running /\ top.k = "makeCache"
    /\ cache' = MakeCache(cache)
    /\ ret' = NoRet
    /\ hits' = <<>>
    /\ stored' = <<>>
    /\ todo' = Tail(todo)
    /\ Silent
    /\ UNCHANGED <<dstack, calls, i, fibStack, files, erred, panicking, prior, heap, loc, env>>

\* result := fib(10): the call
FibCall ==
    /\ Running /\ top.k = "fib" /\ ret = NoRet
    /\ fibStack' = <<Frame(FibN)>>
    /\ Silent
    /\ UNCHANGED <<todo, dstack, calls, i, cache, ret, hits, files, erred, panicking, prior, stored, heap, loc, env>>

\* a fib that never looks into its cache
FibEntry_NoLookup ==
    /\ fibStack # <<>> /\ Head(fibStack).st = "entry"
    /\ LET n == Head(fibStack).n IN
       IF n <= 1
       THEN /\ ret' = n
            /\ fibStack' = Tail(fibStack)
       ELSE /\ fibStack' = <<Frame(n - 1), [Head(fibStack) EXCEPT !.st = "first"]>>
                              \o Tail(fibStack)
            /\ ret' = ret
    /\ Silent
    /\ UNCHANGED <<todo, dstack, calls, i, cache, hits, files, erred, panicking, prior, stored, heap, loc, env>>

\* fib's entry: the cache check, then the base cases, else the first recursive call
FibEntry ==
    /\ fibStack # <<>> /\ Head(fibStack).st = "entry"
    /\ LET n == Head(fibStack).n IN
       IF n \in DOMAIN cache
       THEN /\ Wrote(<<"  Cache hit for fib(" \o ToString(n) \o ")">>)
            /\ hits' = Append(hits, n)
            /\ ret' = cache[n]
            /\ fibStack' = Tail(fibStack)
       ELSE IF n <= 1
       THEN /\ ret' = n
            /\ fibStack' = Tail(fibStack)
            /\ Silent
            /\ hits' = hits
       ELSE /\ fibStack' = <<Frame(n - 1), [Head(fibStack) EXCEPT !.st = "first"]>>
                              \o Tail(fibStack)
            /\ Silent
            /\ UNCHANGED <<ret, hits>>
    /\ UNCHANGED <<todo, dstack, calls, i, cache, files, erred, panicking, prior, stored, heap, loc, env>>

\* a fib whose second recursive call repeats the first
FibFirst_SameArg ==
    /\ fibStack # <<>> /\ Head(fibStack).st = "first"
    /\ fibStack' = <<Frame(Head(fibStack).n - 1),
                     [Head(fibStack) EXCEPT !.st = "second", !.a = ret]>>
                      \o Tail(fibStack)
    /\ Silent
    /\ UNCHANGED <<todo, dstack, calls, i, cache, ret, hits, files, erred, panicking, prior, stored, heap, loc, env>>

\* fib(n-1) has returned: keep its value and call fib(n-2)
FibFirst ==
    /\ fibStack # <<>> /\ Head(fibStack).st = "first"
    /\ fibStack' = <<Frame(Head(fibStack).n - 2),
                     [Head(fibStack) EXCEPT !.st = "second", !.a = ret]>>
                      \o Tail(fibStack)
    /\ Silent
    /\ UNCHANGED <<todo, dstack, calls, i, cache, ret, hits, files, erred, panicking, prior, stored, heap, loc, env>>

\* a fib that stores its result under the key of its first recursive call
FibSecond_KeyOff ==
    /\ fibStack # <<>> /\ Head(fibStack).st = "second"
    /\ LET result == Head(fibStack).a + ret IN
       /\ cache' = ((Head(fibStack).n - 1) :> result) @@ cache
       /\ ret' = result
    /\ stored' = Append(stored, Head(fibStack).n - 1)
    /\ fibStack' = Tail(fibStack)
    /\ Silent
    /\ UNCHANGED <<todo, dstack, calls, i, hits, files, erred, panicking, prior, heap, loc, env>>

\* fib(n-2) has returned: add, store in the cache, return
FibSecond ==
    /\ fibStack # <<>> /\ Head(fibStack).st = "second"
    /\ LET result == Head(fibStack).a + ret IN
       /\ cache' = cache @@ (Head(fibStack).n :> result)
       /\ ret' = result
    /\ stored' = Append(stored, Head(fibStack).n)
    /\ fibStack' = Tail(fibStack)
    /\ Silent
    /\ UNCHANGED <<todo, dstack, calls, i, hits, files, erred, panicking, prior, heap, loc, env>>

\* result := fib(10): the assignment, once the outermost call has returned
FibReturn ==
    /\ Running /\ top.k = "fib" /\ ret # NoRet
    /\ todo' = Tail(todo)
    /\ Silent
    /\ UNCHANGED <<dstack, calls, i, cache, fibStack, ret, hits, files, erred, panicking, prior, stored, heap, loc, env>>

ExecPrintResult ==
    /\ Running /\ top.k = "printResult"
    /\ Wrote(<<"Result: " \o ToString(ret)>>)
    /\ todo' = Tail(todo)
    /\ UNCHANGED <<dstack, calls, i, cache, fibStack, ret, hits, files, erred, panicking, prior, stored, heap, loc, env>>

RECURSIVE FmtIntMap(_, _)
\* fmt's %v of a map[int]int: the entries in increasing key order
FmtIntMap(c, keys) ==
    IF keys = {} THEN <<>>
    ELSE LET lo == CHOOSE x \in keys : \A y \in keys : x <= y
         IN  <<ToString(lo), ToString(c[lo])>> \o FmtIntMap(c, keys \ {lo})

ExecPrintCache ==
    /\ Running /\ top.k = "printCache"
    /\ Wrote(<<"Cache contents: %v">> \o FmtIntMap(cache, DOMAIN cache))
    /\ todo' = Tail(todo)
    /\ prior' = TRUE
    /\ UNCHANGED <<dstack, calls, i, cache, fibStack, ret, hits, files, erred, panicking, stored, heap, loc, env>>

\* the values reached through the pointers &num collected by
\* for _, num := range nums { pointers = append(pointers, &num) }
RangePtrValues(nums, sem) ==
    IF sem = "shared" THEN [j \in 1..Len(nums) |-> nums[Len(nums)]] ELSE nums

\* SliceGotchas, gotcha 2: the values printed through the collected pointers
ExecDerefLoopVar ==
    /\ Running /\ top.k = "derefLoopVar"
    /\ Wrote(<<"Values via pointers (WRONG): ">>
               \o [j \in 1..3 |-> ToString(RangePtrValues(<<1, 2, 3>>, loopvar)[j])])
    /\ todo' = Tail(todo)
    /\ UNCHANGED <<dstack, calls, i, cache, fibStack, ret, hits, files, erred, panicking, prior, stored, heap, loc, env>>

\* every statement the menu's runners execute
Exec ==
    \/ ExecDerefLoopVar
    \/ ExecCall \/ ExecRet \/ ExecLit \/ ExecPtr \/ ExecPrintMap \/ ExecRange
    \/ ForIter \/ ForExit
    \/ ExecMakeCache \/ FibCall \/ FibEntry \/ FibFirst \/ FibSecond \/ FibReturn
    \/ ExecPrintResult \/ ExecPrintCache

-----------------------------------------------------------------------------
(* defer, panic and recover; the file operations of fileDeferExample *)

\* the value of an argument, a variable of the frame or a value
Eval(arg, frame) == IF arg[1] = "var" THEN frame[arg[2]] ELSE arg[2]

\* a defer that leaves the argument to be evaluated when the call runs
Deferred_Late(h) ==
    IF h.a = "recover" THEN Op("recover")
    ELSE IF h.m # <<>> THEN CallWith(h.a, h.m)
    ELSE L(h.a)

\* the call a defer statement registers: its argument is evaluated now
Deferred(h) ==
    IF h.a = "recover" THEN Op("recover")
    ELSE IF h.m # <<>> THEN CallWith(h.a, <<"val", Eval(h.m, Head(env))>>)
    ELSE L(h.a)

\* a defer that puts the call at the end of the function's list
ExecDefer_Fifo ==
    /\ Running /\ top.k = "defer"
    /\ dstack' = <<Head(dstack) \o <<Deferred(top)>>>> \o Tail(dstack)
    /\ todo' = Tail(todo)
    /\ Silent
    /\ UNCHANGED <<calls, i, cache, fibStack, ret, hits, files, erred, panicking, prior, stored, heap, loc, env>>

\* defer: the call is pushed on the running function's list
ExecDefer ==
    /\ Running /\ top.k = "defer"
    /\ dstack' = <<<<Deferred(top)>> \o Head(dstack)>> \o Tail(dstack)
    /\ todo' = Tail(todo)
    /\ Silent
    /\ UNCHANGED <<calls, i, cache, fibStack, ret, hits, files, erred, panicking, prior, stored, heap, loc, env>>

\* panic(v): the rest of the function is skipped
ExecPanic ==
    /\ Running /\ top.k = "panic"
    /\ panicking' = top.a
    /\ todo' = DropToRet(todo)
    /\ Silent
    /\ UNCHANGED <<dstack, calls, i, cache, fibStack, ret, hits, files, erred, prior, stored, heap, loc, env>>

\* a recover that reports the panic and lets it go on
ExecRecover_Rethrows ==
    /\ Running /\ top.k = "recover"
    /\ IF panicking # NoPanic
       THEN Wrote(<<"Recovered from panic: " \o panicking>>)
       ELSE Silent
    /\ todo' = Tail(todo)
    /\ UNCHANGED <<dstack, calls, i, cache, fibStack, ret, hits, files, erred, panicking, prior, stored, heap, loc, env>>

\* if r := recover(); r != nil { print } in a deferred closure
ExecRecover ==
    /\ Running /\ top.k = "recover"
    /\ IF panicking # NoPanic
       THEN Wrote(<<"Recovered from panic: " \o panicking>>)
       ELSE Silent
    /\ panicking' = NoPanic
    /\ todo' = Tail(todo)
    /\ UNCHANGED <<dstack, calls, i, cache, fibStack, ret, hits, files, erred, prior, stored, heap, loc, env>>

\* time.Sleep(100 * time.Millisecond)
ExecSleep ==
    /\ Running /\ top.k = "sleep"
    /\ todo' = Tail(todo)
    /\ Silent
    /\ UNCHANGED <<dstack, calls, i, cache, fibStack, ret, hits, files, erred, panicking, prior, stored, heap, loc, env>>

\* message := "...", message = "..."
ExecSet ==
    /\ Running /\ top.k = "set"
    /\ env' = <<(top.a :> top.m) @@ Head(env)>> \o Tail(env)
    /\ todo' = Tail(todo)
    /\ Silent
    /\ UNCHANGED <<dstack, calls, i, cache, fibStack, ret, hits, files, erred, panicking, prior, stored, heap, loc>>

\* printMessage(msg string)
Param(f) == "msg"

\* a call with an argument: the argument's value becomes the callee's parameter
ExecCallWith ==
    /\ Running /\ top.k = "callWith"
    /\ todo' = Body(top.a) \o <<Ret(top.a)>> \o Tail(todo)
    /\ dstack' = <<<<>>>> \o dstack
    /\ env' = <<(Param(top.a) :> Eval(top.m, Head(env)))>> \o env
    /\ calls' = Event("call", top.a)
    /\ Silent
    /\ UNCHANGED <<i, cache, fibStack, ret, hits, files, erred, panicking, prior, stored, heap, loc>>

\* fmt.Printf("Deferred message: %s\n", msg)
ExecPrintVar ==
    /\ Running /\ top.k = "printVar"
    /\ Wrote(<<top.a \o Head(env)[top.m]>>)
    /\ todo' = Tail(todo)
    /\ UNCHANGED <<dstack, calls, i, cache, fibStack, ret, hits, files, erred, panicking, prior, stored, heap, loc, env>>

filename == "test.txt"
content == "Hello, Go defer!"

\* the directory after os.WriteFile(name, data): the file holds data when the
\* call succeeds; when it fails the file is as before, or created or truncated
\* and left empty
WriteFile(fs, name, data, ok) ==
    IF ok THEN {(name :> data) @@ fs} ELSE {fs, (name :> "") @@ fs}

\* lines 50-54
ExecWriteFile ==
    /\ Running /\ top.k = "writeFile"
    /\ \E ok \in BOOLEAN :
         /\ files' \in WriteFile(files, filename, content, ok)
         /\ IF ok
            THEN todo' = Tail(todo) /\ Silent /\ erred' = erred
            ELSE /\ Wrote(<<"Error creating file: %v">>)
                 /\ todo' = DropToRet(todo)
                 /\ erred' = TRUE
    /\ UNCHANGED <<dstack, calls, i, cache, fibStack, ret, hits, panicking, prior, stored, heap, loc, env>>

\* lines 57-61: os.Open fails when the file is absent, or for a reason of the
\* environment's
ExecOpenFile ==
    /\ Running /\ top.k = "openFile"
    /\ \E ok \in BOOLEAN :
         IF ok /\ filename \in DOMAIN files
         THEN todo' = Tail(todo) /\ Silent /\ erred' = erred
         ELSE /\ Wrote(<<"Error opening file: %v">>)
              /\ todo' = DropToRet(todo)
              /\ erred' = TRUE
    /\ UNCHANGED <<dstack, calls, i, cache, fibStack, ret, hits, files, panicking, prior, stored, heap, loc, env>>

\* lines 68-75: Read fails at the end of an empty file (io.EOF), or for a
\* reason of the environment's
ExecReadFile ==
    /\ Running /\ top.k = "readFile"
    /\ \E ok \in BOOLEAN :
         IF ok /\ filename \in DOMAIN files /\ files[filename] # ""
         THEN /\ Wrote(<<"File content: " \o files[filename]>>)
              /\ todo' = Tail(todo)
              /\ erred' = erred
         ELSE /\ Wrote(<<"Error reading file: %v">>)
              /\ todo' = DropToRet(todo)
              /\ erred' = TRUE
    /\ UNCHANGED <<dstack, calls, i, cache, fibStack, ret, hits, files, panicking, prior, stored, heap, loc, env>>

\* the statements only the fmt and defer programs execute
ExecIO ==
    \/ ExecDefer \/ ExecPanic \/ ExecRecover \/ ExecSleep
    \/ ExecSet \/ ExecCallWith \/ ExecPrintVar
    \/ ExecWriteFile \/ ExecOpenFile \/ ExecReadFile

-----------------------------------------------------------------------------
(* datastructures/main.go: the menu dispatcher *)

Str(c) == <<c>>

\* a switch whose cases are each one token late
Selected_Shifted(inp) ==
    CASE inp = Str("1") -> "exit"
      [] inp = Str("2") -> "RunArraysSlices"
      [] inp = Str("3") -> "RunMaps"
      [] inp = Str("4") -> "RunStructs"
      [] inp = Str("5") -> "RunNewVsMake"
      [] inp = Str("0") -> "RunAll"
      [] OTHER -> "invalid"

\* a switch whose default case returns from main
Selected_DefaultExits(inp) ==
    CASE inp = Str("1") -> "RunArraysSlices"
      [] inp = Str("2") -> "RunMaps"
      [] inp = Str("3") -> "RunStructs"
      [] inp = Str("4") -> "RunNewVsMake"
      [] inp = Str("5") -> "RunAll"
      [] OTHER -> "exit"

\* a switch that also returns from main on an empty line
Selected_EmptyExits(inp) ==
    CASE inp = Str("1") -> "RunArraysSlices"
      [] inp = Str("2") -> "RunMaps"
      [] inp = Str("3") -> "RunStructs"
      [] inp = Str("4") -> "RunNewVsMake"
      [] inp = Str("5") -> "RunAll"
      [] inp = Str("0") \/ inp = <<>> -> "exit"
      [] OTHER -> "invalid"

\* the switch on the trimmed input: the runner a token selects
Selected(inp) ==
    CASE inp = Str("1") -> "RunArraysSlices"
      [] inp = Str("2") -> "RunMaps"
      [] inp = Str("3") -> "RunStructs"
      [] inp = Str("4") -> "RunNewVsMake"
      [] inp = Str("5") -> "RunAll"
      [] inp = Str("0") -> "exit"
      [] OTHER -> "invalid"

\* what ReadString returns while input remains: a line with its newline, or at
\* the end of the input the bytes before it
FullLines == {ReadString(b, TRUE) : b \in Bodies}
LastLines == {ReadString(b, FALSE) : b \in Bodies}

\* a reader that waits for input that never comes once the input is exhausted
ReadLine_BlocksAtEof ==
    /\ ~eof
    /\ \/ lastLine' \in FullLines /\ eof' = FALSE
       \/ lastLine' \in LastLines /\ eof' = TRUE

\* reader.ReadString('\n'): the string returned, and whether the input is exhausted
\* after the call (once it is, "" is returned, with an error main ignores)
ReadLine ==
    IF eof
    THEN lastLine' = <<>> /\ eof' = TRUE
    ELSE \/ lastLine' \in FullLines /\ eof' = FALSE
         \/ lastLine' \in LastLines /\ eof' = TRUE

\* the latest step read nothing
NoRead == lastLine' = NoLine /\ lastAt' = "none"

\* lines 19-27: the menu and the prompt
ShowMenu ==
    /\ pc = "menu"
    /\ pc' = "read"
    /\ emit' = <<"Select a topic to learn: ... Your choice: ">>
    /\ reads' = 0 /\ compared' = 0 /\ calls' = <<>>
    /\ NoRead
    /\ UNCHANGED <<eof, input, todo, dstack, nout, i, cache,
                   fibStack, ret, hits, files, erred, panicking, prior, stored, heap, loc, log, env>>
    /\ UNCHANGED <<testVars, loopvar>>

\* lines 29-48: read a line, trim it, switch on it
ReadChoice ==
    /\ pc = "read"
    /\ ReadLine
    /\ input' = TrimSpace(lastLine')
    /\ LET sel == Selected(input')
       IN  CASE sel = "exit" ->
                  /\ pc' = "exited"
                  /\ emit' = <<"Happy coding!">>
                  /\ todo' = <<>>
             [] sel = "invalid" ->
                  /\ pc' = "after"
                  /\ emit' = <<"Invalid choice. Please enter 0-5.">>
                  /\ todo' = <<>>
             [] OTHER ->
                  /\ pc' = "run"
                  /\ emit' = emit
                  /\ todo' = <<Call(sel)>>
    /\ lastAt' = "choice"
    /\ reads' = reads + 1
    /\ compared' = compared + 1
    /\ UNCHANGED <<calls, dstack, nout, i, cache, fibStack, ret, hits, files, erred,
                   panicking, prior, stored, heap, loc, log, env>>
    /\ UNCHANGED <<testVars, loopvar>>

\* the selected runner executes its next statement
RunStep ==
    /\ pc = "run"
    /\ Exec
    /\ NoRead
    /\ UNCHANGED <<pc, eof, input, reads, compared>>
    /\ UNCHANGED <<testVars, loopvar>>

\* lines 50-51, reached when the switch is left without returning
PromptContinue ==
    /\ pc \in {"run", "after"} /\ todo = <<>>
    /\ pc' = "pause"
    /\ emit' = <<"Press ENTER to continue...">>
    /\ input' = NoLine
    /\ calls' = <<>>
    /\ NoRead
    /\ UNCHANGED <<eof, reads, compared, todo,
                   dstack, nout, i, cache, fibStack, ret, hits, files, erred, panicking, prior, stored, heap, loc, log, env>>
    /\ UNCHANGED <<testVars, loopvar>>

\* a loop body that ends at the Press ENTER prompt without reading
ReadPause_Skipped ==
    /\ pc = "pause"
    /\ NoRead
    /\ pc' = "menu"
    /\ UNCHANGED <<eof, input, reads, compared, calls, todo, dstack, emit, nout, i, cache,
                   fibStack, ret, hits, files, erred, panicking, prior, stored, heap, loc, log, env>>
    /\ UNCHANGED <<testVars, loopvar>>

\* line 52: a line is read and discarded; the loop body ends
ReadPause ==
    /\ pc = "pause"
    /\ ReadLine
    /\ lastAt' = "pause"
    /\ reads' = reads + 1
    /\ input' = NoLine
    /\ pc' = "menu"
    /\ UNCHANGED <<compared, calls, todo, dstack, emit, nout, i, cache, fibStack,
                   ret, hits, files, erred, panicking, prior, stored, heap, loc, log, env>>
    /\ UNCHANGED <<testVars, loopvar>>

NoFiles == <<>>

\* lines 11-16: the banner is printed and the reader created
Init ==
    /\ pc = "menu"
    /\ eof = FALSE
    /\ input = NoLine
    /\ lastLine = NoLine
    /\ lastAt = "none"
    /\ reads = 0 /\ compared = 0
    /\ calls = <<>>
    /\ todo = <<>> /\ dstack = <<>>
    /\ emit = <<"GO DATA STRUCTURES TUTORIAL">>
    /\ nout = 0 /\ i = 0
    /\ cache = <<>> /\ fibStack = <<>> /\ ret = NoRet /\ hits = <<>>
    /\ files = NoFiles /\ files0 = NoFiles /\ erred = FALSE
    /\ panicking = NoPanic
    /\ prior = FALSE
    /\ stored = <<>> /\ heap = <<>> /\ loc = NoLoc
    /\ log = <<>> /\ env = <<>>
    /\ fn = "" /\ run = 0 /\ obs = None /\ again = NoChunk
    /\ loopvar \in {"shared", "fresh"}

Next == ShowMenu \/ ReadChoice \/ RunStep \/ PromptContinue \/ ReadPause

Spec == Init /\ [][Next]_vars

\* The process is the only goroutine and is always scheduled, so a step of main or
\* of the running runner that can be taken is taken; a ReadString call returns
\* once a line has arrived or the input has ended.
LiveSpec ==
    /\ Init /\ [][Next]_vars
    /\ WF_vars(ShowMenu) /\ WF_vars(RunStep) /\ WF_vars(PromptContinue)
    /\ WF_vars(ReadChoice) /\ WF_vars(ReadPause)

-----------------------------------------------------------------------------
(* A demonstration function called twice in one process, as the runners and  *)
(* the menu loop call it, with one chunk of the first call's output recorded *)
(* and compared with the chunk at the same place in the second call's.       *)

\* the demonstration functions: what the runners and the two mains call
Demos ==
    { "ArrayBasics", "SliceBasics", "SliceOperations", "SliceCapacityAndGrowth",
      "SlicePatternFilter", "SlicePatternMap", "SlicePatternReduce", "SliceGotchas",
      "MapBasics", "MapOperations", "MapIteration", "MapWithComplexTypes",
      "MapPatternGrouping", "MapPatternCounting", "MapPatternSet", "MapPatternCache",
      "MapGotchas",
      "StructBasics", "StructPointers", "StructComparison", "StructEmbedding",
      "StructMethods", "StructTags", "StructPatternConstructor", "StructPatternBuilder",
      "StructPatternAnonymous", "StructGotchas",
      "NewBasics", "MakeBasics", "NewVsMakeComparison", "WhenToUseWhat",
      "PracticalExamples", "MemoryAllocationDetails", "CommonMistakes",
      "fmtDemoMain",
      "simpleDeferExample", "fileDeferExample", "resourceCleanupExample",
      "deferWithParametersExample", "panicRecoveryExample" }

\* the working directory the process starts in: empty, or with a test.txt
DemoInit ==
    /\ pc = "idle"
    /\ eof = FALSE
    /\ input = NoLine
    /\ lastLine = NoLine
    /\ lastAt = "none"
    /\ reads = 0 /\ compared = 0
    /\ calls = <<>>
    /\ todo = <<>> /\ dstack = <<>>
    /\ emit = NoChunk
    /\ nout = 0 /\ i = 0
    /\ cache = <<>> /\ fibStack = <<>> /\ ret = NoRet /\ hits = <<>>
    /\ files \in {NoFiles, (filename :> "old")}
    /\ files0 = files
    /\ erred = FALSE
    /\ panicking = NoPanic
    /\ prior = FALSE
    /\ stored = <<>> /\ heap = <<>> /\ loc = NoLoc
    /\ log = <<>> /\ env = <<>>
    /\ fn = "" /\ run = 0 /\ obs = None /\ again = NoChunk
    /\ loopvar \in {"shared", "fresh"}

\* the first call of f
Invoke ==
    /\ pc = "idle"
    /\ \E f \in Demos :
         /\ fn' = f
         /\ todo' = <<Call(f)>>
    /\ pc' = "test"
    /\ run' = 1
    /\ nout' = 0
    /\ files0' = files
    /\ erred' = FALSE
    /\ UNCHANGED <<eof, input, lastLine, lastAt, reads, compared, calls, dstack, emit, i,
                   cache, fibStack, ret, hits, files, panicking, obs, again, loopvar, prior, stored, heap, loc, log, env>>

\* the observer: in the first call any one chunk may be recorded; in the
\* second the chunk written at the recorded place is kept
Observe ==
    IF nout' = nout THEN UNCHANGED <<obs, again>>
    ELSE IF run = 1
    THEN /\ obs' \in IF obs = None THEN {None, [at |-> nout', out |-> emit']} ELSE {obs}
         /\ again' = again
    ELSE /\ obs' = obs
         /\ again' = IF nout' = obs.at THEN emit' ELSE again

\* the function under test executes its next statement
TestStep ==
    /\ pc = "test"
    /\ (Exec \/ ExecIO)
    /\ Observe
    /\ UNCHANGED <<pc, eof, input, lastLine, lastAt, reads, compared>>
    /\ UNCHANGED <<fn, run, files0, loopvar>>

\* the first call has returned: the second call of the same function
Reinvoke ==
    /\ pc = "test" /\ todo = <<>> /\ run = 1
    /\ todo' = <<Call(fn)>>
    /\ run' = 2
    /\ nout' = 0
    /\ files0' = files
    /\ erred' = FALSE
    /\ UNCHANGED <<pc, eof, input, lastLine, lastAt, reads, compared, calls, dstack, emit,
                   i, cache, fibStack, ret, hits, files, panicking, fn, obs, again,
                   loopvar, prior, stored, heap, loc, log, env>>

\* the second call has returned
Finish ==
    /\ pc = "test" /\ todo = <<>> /\ run = 2
    /\ pc' = "done"
    /\ UNCHANGED <<eof, input, lastLine, lastAt, reads, compared, calls, todo, dstack,
                   emit, nout, i, cache, fibStack, ret, hits, files, files0, erred,
                   panicking, fn, run, obs, again, loopvar, prior, stored, heap, loc, log, env>>

DemoNext == Invoke \/ TestStep \/ Reinvoke \/ Finish

DemoSpec == DemoInit /\ [][DemoNext]_vars

-----------------------------------------------------------------------------
(* The lesson programs run on their own, on inputs drawn from bounded sets: *)
(* the fib closure, the slice idioms, divide                                *)

\* the largest argument fib is given
MaxFib == 10
\* the longest slice literal, and the values its elements are drawn from
MaxSlice == 4
Elements == {2, 6, 9}
\* the width of int in the model; the builds have 64 or 32 bits
IntBits == 6

\* every variable but the position, the output and the program's memory
restVars == <<eof, input, lastLine, lastAt, reads, compared, calls, todo, dstack, i,
              cache, fibStack, ret, hits, files, files0, erred, panicking, prior,
              stored, log, env, fn, run, obs, again>>

\* the same but the history of output and the panic in progress
callVars == <<eof, input, lastLine, lastAt, reads, compared, calls, todo, dstack, i,
              cache, fibStack, ret, hits, files, files0, erred, prior,
              stored, env, fn, run, obs, again>>

\* the state a lesson program starts in
Fresh ==
    /\ eof = FALSE /\ input = NoLine /\ lastLine = NoLine /\ lastAt = "none"
    /\ reads = 0 /\ compared = 0 /\ calls = <<>>
    /\ dstack = <<>>
    /\ emit = NoChunk /\ nout = 0 /\ i = 0
    /\ ret = NoRet /\ hits = <<>> /\ stored = <<>> /\ log = <<>> /\ env = <<>>
    /\ erred = FALSE /\ panicking = NoPanic /\ prior = FALSE
    /\ fn = "" /\ run = 0 /\ obs = None /\ again = NoChunk
    /\ loopvar \in {"shared", "fresh"}

\* a program that calls no function of the interpreter and touches no file
Plain == todo = <<>> /\ files = NoFiles /\ files0 = NoFiles

\* result := fib(n), with the cache make has just created
FibInit ==
    /\ pc = "fib"
    /\ \E n \in 0..MaxFib :
         /\ loc = [prog |-> "fib", n |-> n]
         /\ fibStack = <<Frame(n)>>
    /\ cache = MakeCache(<<>>)
    /\ heap = <<>>

\* fib's next step
FibStep ==
    /\ pc = "fib"
    /\ FibEntry \/ FibFirst \/ FibSecond
    /\ UNCHANGED <<dispVars, testVars, loopvar>>

-----------------------------------------------------------------------------
(* Slices: backing arrays in heap, slice values in loc *)

\* a slice value: its backing array, the offset of its first element in it,
\* its length and its capacity
Slice(arr, off, len, cap) == [arr |-> arr, off |-> off, len |-> len, cap |-> cap]

\* the variable no statement has assigned yet
NoSlice == Slice(0, 0, 0, 0)

\* the elements of slice s in memory h
Elems(h, s) == [j \in 1..s.len |-> h[s.arr][s.off + j]]

\* %v of a slice of ints: its elements in decimal
FmtInts(e) == [j \in 1..Len(e) |-> ToString(e[j])]

\* []int{...}: a new array holding vals, and the slice of all of it
Literal(h, vals) ==
    [heap |-> Append(h, vals), slice |-> Slice(Len(h) + 1, 0, Len(vals), Len(vals))]

\* a full slice expression whose capacity is that of the operand
SliceExpr3_CapKept(s, lo, hi, max) == Slice(s.arr, s.off + lo, hi - lo, s.cap - lo)

\* s[lo:hi:max]
SliceExpr3(s, lo, hi, max) == Slice(s.arr, s.off + lo, hi - lo, max - lo)

\* a slice expression that always starts at the operand's first element
SliceExpr_FromZero(s, lo, hi) == SliceExpr3(s, 0, hi, s.cap)

\* s[lo:hi], also written s[:hi] (lo = 0) and s[lo:] (hi = len(s))
SliceExpr(s, lo, hi) == SliceExpr3(s, lo, hi, s.cap)

\* the array append allocates when the capacity does not suffice
Regrown(h, s, vals) ==
    LET need == s.len + Len(vals)
        c == Grow(s.cap, need)
    IN  [heap  |-> Append(h, [j \in 1..c |->
                                IF j <= s.len THEN h[s.arr][s.off + j]
                                ELSE IF j <= need THEN vals[j - s.len] ELSE 0]),
         slice |-> Slice(Len(h) + 1, 0, need, c)]

\* an append that allocates a new array every time
GoAppend_AlwaysCopies(h, s, vals) == Regrown(h, s, vals)

\* append(s, vals...): within the capacity the values are written after the
\* slice's last element in its own backing array; beyond it a larger array is
\* allocated and the elements are copied there
GoAppend(h, s, vals) ==
    LET need == s.len + Len(vals)
        a == h[s.arr]
    IN  IF need <= s.cap
        THEN [heap  |-> [h EXCEPT ![s.arr] =
                           [j \in DOMAIN a |->
                              IF j > s.off + s.len /\ j <= s.off + need
                              THEN vals[j - s.off - s.len] ELSE a[j]]],
              slice |-> [s EXCEPT !.len = need]]
        ELSE Regrown(h, s, vals)

RECURSIVE SeqsUpTo(_, _)
\* the sequences over set S of length at most n
SeqsUpTo(S, n) ==
    IF n = 0 THEN {<<>>}
    ELSE LET shorter == SeqsUpTo(S, n - 1)
         IN  shorter \cup {Append(s, x) : s \in shorter, x \in S}

\* the slice literals the programs are run on
SliceInputs == SeqsUpTo(Elements, MaxSlice)

\* SlicePatternFilter: numbers := []int{1, ..., 10}
FilterDemo == <<1, 2, 3, 4, 5, 6, 7, 8, 9, 10>>

\* a filter that also keeps 5
Keep_FiveToo(num) == num >= 5

\* if num > 5
Keep(num) == num > 5

FilterInit ==
    /\ pc = "filter:slice"
    /\ \E vals \in SliceInputs \cup {FilterDemo} :
         LET lit == Literal(<<>>, vals)
         IN  /\ heap = lit.heap
             /\ loc = [prog |-> "filter", orig |-> vals, numbers |-> lit.slice,
                       filtered |-> NoSlice, r |-> 0]
    /\ cache = <<>> /\ fibStack = <<>>

\* filtered := numbers[:0]
FilterSlice ==
    /\ pc = "filter:slice"
    /\ loc' = [loc EXCEPT !.filtered = SliceExpr(loc.numbers, 0, 0)]
    /\ pc' = "filter:range"
    /\ UNCHANGED <<heap, emit, nout>>

\* for _, num := range numbers { if num > 5 { filtered = append(filtered, num) } }:
\* one iteration; num is the element now in the array at the read position
FilterIter ==
    /\ pc = "filter:range"
    /\ loc.r < loc.numbers.len
    /\ LET num == heap[loc.numbers.arr][loc.numbers.off + loc.r + 1]
           app == GoAppend(heap, loc.filtered, <<num>>)
       IN  IF Keep(num)
           THEN /\ heap' = app.heap
                /\ loc' = [loc EXCEPT !.filtered = app.slice, !.r = @ + 1]
           ELSE /\ heap' = heap
                /\ loc' = [loc EXCEPT !.r = @ + 1]
    /\ UNCHANGED <<pc, emit, nout>>

\* the loop is over: fmt.Printf("Numbers > 5 (in-place): %v\n", filtered)
FilterPrint ==
    /\ pc = "filter:range"
    /\ loc.r = loc.numbers.len
    /\ emit' = <<"Numbers > 5 (in-place): %v">> \o FmtInts(Elems(heap, loc.filtered))
    /\ pc' = "done"
    /\ UNCHANGED <<heap, loc, nout>>

\* SliceGotchas: original := []int{1, 2, 3, 4, 5}, sub := original[0:2], and
\* the value appended
GotchaDemo == <<1, 2, 3, 4, 5>>
SubHigh == 2
Appended == 999

\* gotchas 1 and 3: the literal, where the sub-slice ends, and whether it is
\* taken with the full slice expression
SubInit ==
    /\ pc = "sub:slice"
    /\ \E vals \in SliceInputs \cup {GotchaDemo} :
         \E hi \in 0..Len(vals), full \in BOOLEAN :
           LET lit == Literal(<<>>, vals)
           IN  /\ heap = lit.heap
               /\ loc = [prog |-> "sub", orig |-> vals, original |-> lit.slice,
                         hi |-> hi, full |-> full, sub |-> NoSlice]
    /\ cache = <<>> /\ fibStack = <<>>

\* sub := original[0:2], or sub2 := original2[0:2:2]
SubSlice ==
    /\ pc = "sub:slice"
    /\ loc' = [loc EXCEPT !.sub = IF loc.full
                                  THEN SliceExpr3(loc.original, 0, loc.hi, loc.hi)
                                  ELSE SliceExpr(loc.original, 0, loc.hi)]
    /\ pc' = "sub:append"
    /\ UNCHANGED <<heap, emit, nout>>

\* sub = append(sub, 999)
SubAppend ==
    /\ pc = "sub:append"
    /\ LET app == GoAppend(heap, loc.sub, <<Appended>>)
       IN  /\ heap' = app.heap
           /\ loc' = [loc EXCEPT !.sub = app.slice]
    /\ pc' = "sub:print"
    /\ UNCHANGED <<emit, nout>>

\* the two Printf of original and sub
SubPrint ==
    /\ pc = "sub:print"
    /\ emit' = <<"Original: %v">> \o FmtInts(Elems(heap, loc.original))
                 \o <<"Sub: %v">> \o FmtInts(Elems(heap, loc.sub))
    /\ pc' = "done"
    /\ UNCHANGED <<heap, loc, nout>>

\* SliceOperations: the slice index 2 is deleted from, built as the function
\* builds it
DeleteDemo ==
    LET a == Literal(<<>>, <<10, 20, 30, 40, 50>>)
        b == GoAppend(a.heap, a.slice, <<60>>)
        c == GoAppend(b.heap, b.slice, <<70, 80, 90>>)
        more == Literal(c.heap, <<100, 110>>)
    IN  GoAppend(more.heap, c.slice, Elems(more.heap, more.slice))

\* deleteIndex := 2
deleteIndex == 2

DeleteInit ==
    /\ pc = "delete"
    /\ \/ \E vals \in SliceInputs \ {<<>>} :
            \E idx \in 0..(Len(vals) - 1) :
              LET lit == Literal(<<>>, vals)
              IN  /\ heap = lit.heap
                  /\ loc = [prog |-> "delete", orig |-> vals, slice |-> lit.slice,
                            idx |-> idx]
       \/ /\ heap = DeleteDemo.heap
          /\ loc = [prog |-> "delete", orig |-> Elems(DeleteDemo.heap, DeleteDemo.slice),
                    slice |-> DeleteDemo.slice, idx |-> deleteIndex]
    /\ cache = <<>> /\ fibStack = <<>>

\* slice = append(slice[:deleteIndex], slice[deleteIndex+1:]...): the operands
\* are evaluated, then append moves the elements
DeleteAt ==
    /\ pc = "delete"
    /\ LET s == loc.slice
           rest == Elems(heap, SliceExpr(s, loc.idx + 1, s.len))
           app == GoAppend(heap, SliceExpr(s, 0, loc.idx), rest)
       IN  /\ heap' = app.heap
           /\ loc' = [loc EXCEPT !.slice = app.slice]
    /\ pc' = "delete:print"
    /\ UNCHANGED <<emit, nout>>

\* fmt.Printf("After deleting index %d: %v\n", deleteIndex, slice)
DeletePrint ==
    /\ pc = "delete:print"
    /\ emit' = <<"After deleting index " \o ToString(loc.idx) \o ": %v">>
                 \o FmtInts(Elems(heap, loc.slice))
    /\ pc' = "done"
    /\ UNCHANGED <<heap, loc, nout>>

\* SliceGotchas, gotcha 2: numbers := []int{1, 2, 3}
RangeDemo == <<1, 2, 3>>

\* the two range loops: the one that appends &num of the loop variable, and
\* the one whose body starts with num := num
RangeInit ==
    /\ pc = "range"
    /\ \E vals \in SliceInputs \cup {RangeDemo}, copy \in BOOLEAN :
         LET lit == Literal(<<>>, vals)
         IN  /\ heap = lit.heap
             /\ loc = [prog |-> "range", orig |-> vals, numbers |-> lit.slice,
                       copy |-> copy, pointers |-> <<>>, r |-> 0, num |-> 0]
    /\ cache = <<>> /\ fibStack = <<>>

\* one iteration of for _, num := range numbers { [num := num;] pointers =
\* append(pointers, &num) }: the loop variable is one variable for the whole
\* loop or a new one in every iteration, as the language version of the build
\* has it; the num declared in the body is a new variable every time
RangeIter ==
    /\ pc = "range"
    /\ loc.r < loc.numbers.len
    /\ LET val == heap[loc.numbers.arr][loc.numbers.off + loc.r + 1]
           reuse == loopvar = "shared" /\ loc.r > 0
           num == IF reuse THEN loc.num ELSE Len(heap) + 1
           h1 == IF reuse THEN [heap EXCEPT ![num] = <<val>>] ELSE Append(heap, <<val>>)
           inner == Len(h1) + 1
           h2 == IF loc.copy THEN Append(h1, <<h1[num][1]>>) ELSE h1
       IN  /\ heap' = h2
           /\ loc' = [loc EXCEPT !.num = num, !.r = @ + 1,
                                 !.pointers = Append(@, IF loc.copy THEN inner ELSE num)]
    /\ UNCHANGED <<pc, emit, nout>>

\* the loop is over: the values are printed through the pointers
RangePrint ==
    /\ pc = "range"
    /\ loc.r = loc.numbers.len
    /\ emit' = <<IF loc.copy THEN "Values via pointers (CORRECT): "
                             ELSE "Values via pointers (WRONG): ">>
                 \o FmtInts([j \in 1..Len(loc.pointers) |-> heap[loc.pointers[j]][1]])
    /\ pc' = "done"
    /\ UNCHANGED <<heap, loc, nout>>

-----------------------------------------------------------------------------
(* Named results: divide *)

Abs(x) == IF x < 0 THEN 0 - x ELSE x

\* the values of an int: two's complement of IntBits bits
MinInt == 0 - 2^(IntBits - 1)
MaxInt == 2^(IntBits - 1) - 1

\* the int a result of int arithmetic is: the value modulo 2^IntBits
Wrap(x) == ((x - MinInt) % 2^IntBits) + MinInt

\* Go's / on ints: the quotient truncated toward zero; the most negative int
\* divided by -1 overflows to itself
Quo(a, b) ==
    Wrap(IF (a < 0) = (b < 0) THEN Abs(a) \div Abs(b) ELSE 0 - (Abs(a) \div Abs(b)))

\* a remainder that is never negative
Rem_Floored(a, b) == a % Abs(b)

\* Go's % on ints: the remainder of the truncated division, with the sign of
\* the dividend
Rem(a, b) == IF a < 0 THEN 0 - (Abs(a) % Abs(b)) ELSE a % Abs(b)

\* divide's results, and what it prints
divide(dividend, divisor) ==
    IF divisor = 0
    THEN [out |-> <<"Error: Division by zero">>, quotient |-> 0, remainder |-> dividend]
    ELSE [out |-> NoChunk, quotient |-> Quo(dividend, divisor),
          remainder |-> Rem(dividend, divisor)]

\* quotient and remainder are created, as zeros, at function start
DivideInit ==
    /\ pc = "divide"
    /\ \E dividend, divisor \in MinInt..MaxInt :
         loc = [prog |-> "divide", dividend |-> dividend, divisor |-> divisor,
                quotient |-> 0, remainder |-> 0]
    /\ heap = <<>> /\ cache = <<>> /\ fibStack = <<>>

\* quotient, remainder := divide(dividend, divisor)
DivideCall ==
    /\ pc = "divide"
    /\ LET res == divide(loc.dividend, loc.divisor)
       IN  /\ loc' = [loc EXCEPT !.quotient = res.quotient, !.remainder = res.remainder]
           /\ emit' = IF res.out = NoChunk THEN emit ELSE res.out
    /\ pc' = "done"
    /\ UNCHANGED <<heap, nout>>

-----------------------------------------------------------------------------
(* The defer examples, each called on its own, and main that calls them all *)

DeferDemos ==
    { "simpleDeferExample", "fileDeferExample", "resourceCleanupExample",
      "deferWithParametersExample", "panicRecoveryExample", "deferMain" }

DeferInit ==
    /\ pc = "defer"
    /\ \E f \in DeferDemos :
         /\ loc = [prog |-> "defer", f |-> f]
         /\ todo = <<Call(f)>>
    /\ files \in {NoFiles, (filename :> "old")}
    /\ files0 = files
    /\ heap = <<>> /\ cache = <<>> /\ fibStack = <<>>

\* the called example executes its next statement
DeferStep ==
    /\ pc = "defer"
    /\ ExecCall \/ ExecRet \/ ExecLit \/ ExecIO
    /\ UNCHANGED <<dispVars, testVars, loopvar>>

-----------------------------------------------------------------------------
(* Multiple return values: analyzeNumber *)

\* int(math.Sqrt(float64(n))) for n >= 0: the integer part of the square root
\* (the conversions are exact for the ints of the model)
Isqrt(n) == CHOOSE r \in 0..n : r * r <= n /\ (r + 1) * (r + 1) > n

RECURSIVE DivisorFound(_, _, _)
\* for i := 2; i <= limit; i++ { if n%i == 0 { isPrime = false; break } },
\* from i on: whether the loop ends by the break
DivisorFound(n, j, limit) ==
    IF j > limit THEN FALSE
    ELSE IF Rem(n, j) = 0 THEN TRUE
    ELSE DivisorFound(n, j + 1, limit)

\* the run-time panic of an integer division by zero
DivideByZero == "runtime error: integer divide by zero"

AnalyzeInit ==
    /\ pc = "analyze"
    /\ \E n \in MinInt..MaxInt :
         loc = [prog |-> "analyze", n |-> n, isPrime |-> FALSE, factors |-> <<>>, j |-> 0]
    /\ heap = <<>> /\ cache = <<>> /\ fibStack = <<>>

\* analyzeNumber up to its second loop: the two early returns, and the
\* primality check
AnalyzeStart ==
    /\ pc = "analyze"
    /\ IF loc.n <= 1
       THEN loc' = [loc EXCEPT !.isPrime = FALSE, !.factors = <<>>] /\ pc' = "done"
       ELSE IF loc.n = 2
       THEN loc' = [loc EXCEPT !.isPrime = TRUE, !.factors = <<1, 2>>] /\ pc' = "done"
       ELSE /\ loc' = [loc EXCEPT !.isPrime = ~DivisorFound(loc.n, 2, Isqrt(loc.n)),
                                  !.j = 1]
            /\ pc' = "analyze:factors"
    /\ UNCHANGED <<heap, emit, nout, log, panicking>>

\* for i := 1; i <= n; i++ { if n%i == 0 { factors = append(factors, i) } }:
\* one iteration; i++ is int arithmetic, and n%0 is a run-time panic
AnalyzeFactor ==
    /\ pc = "analyze:factors"
    /\ loc.j <= loc.n
    /\ IF loc.j = 0
       THEN /\ panicking' = DivideByZero
            /\ pc' = "done"
            /\ loc' = loc
       ELSE /\ loc' = [loc EXCEPT
                         !.factors = IF Rem(loc.n, loc.j) = 0 THEN Append(@, loc.j) ELSE @,
                         !.j = Wrap(@ + 1)]
            /\ UNCHANGED <<pc, panicking>>
    /\ UNCHANGED <<heap, emit, nout, log>>

\* the loop is over: return isPrime, factors
AnalyzeReturn ==
    /\ pc = "analyze:factors"
    /\ loc.j > loc.n
    /\ pc' = "done"
    /\ UNCHANGED <<heap, loc, emit, nout, log, panicking>>

-----------------------------------------------------------------------------
(* StructPatternBuilder: functional options *)

\* the most options NewConfig is given
MaxOpts == 3

\* the closures WithHost(host), WithPort(port), WithDebug(debug) return
WithHost(host) == [fn |-> "WithHost", arg |-> host]
WithPort(port) == [fn |-> "WithPort", arg |-> port]
WithDebug(debug) == [fn |-> "WithDebug", arg |-> debug]

\* the options the model passes
Options ==
    {WithHost(h) : h \in {"example.com", "go.dev"}}
      \cup {WithPort(p) : p \in {9090, 80}}
      \cup {WithDebug(d) : d \in BOOLEAN}

\* config := &Config{...}: the default values
Defaults == [Host |-> "localhost", Port |-> 8080, Timeout |-> 30, Debug |-> FALSE]

\* an option that also sets the time-out
ApplyOption_PortSetsTimeout(opt, c) ==
    CASE opt.fn = "WithHost" -> [c EXCEPT !.Host = opt.arg]
      [] opt.fn = "WithPort" -> [c EXCEPT !.Port = opt.arg, !.Timeout = 0]
      [] opt.fn = "WithDebug" -> [c EXCEPT !.Debug = opt.arg]

\* opt(config): the body of the closure
ApplyOption(opt, c) ==
    CASE opt.fn = "WithHost" -> [c EXCEPT !.Host = opt.arg]
      [] opt.fn = "WithPort" -> [c EXCEPT !.Port = opt.arg]
      [] opt.fn = "WithDebug" -> [c EXCEPT !.Debug = opt.arg]

\* %+v of a Config
FmtConfig(c) ==
    "{Host:" \o c.Host \o " Port:" \o ToString(c.Port) \o " Timeout:"
      \o ToString(c.Timeout) \o " Debug:" \o (IF c.Debug THEN "true" ELSE "false") \o "}"

\* cfg := NewConfig(opts...)
ConfigInit ==
    /\ pc = "config:new"
    /\ \E opts \in SeqsUpTo(Options, MaxOpts) :
         loc = [prog |-> "config", opts |-> opts, config |-> 0, r |-> 0]
    /\ heap = <<>> /\ cache = <<>> /\ fibStack = <<>>

\* config := &Config{Host: "localhost", Port: 8080, Timeout: 30, Debug: false}
ConfigNew ==
    /\ pc = "config:new"
    /\ heap' = Append(heap, Defaults)
    /\ loc' = [loc EXCEPT !.config = Len(heap) + 1]
    /\ pc' = "config:range"
    /\ UNCHANGED <<emit, nout, log, panicking>>

\* for _, opt := range opts { opt(config) }: one iteration
ConfigApply ==
    /\ pc = "config:range"
    /\ loc.r < Len(loc.opts)
    /\ heap' = [heap EXCEPT ![loc.config] = ApplyOption(loc.opts[loc.r + 1], @)]
    /\ loc' = [loc EXCEPT !.r = @ + 1]
    /\ UNCHANGED <<pc, emit, nout, log, panicking>>

\* return config; fmt.Printf("Config: %+v\n", *cfg)
ConfigPrint ==
    /\ pc = "config:range"
    /\ loc.r = Len(loc.opts)
    /\ emit' = <<"Config: " \o FmtConfig(heap[loc.config])>>
    /\ pc' = "done"
    /\ UNCHANGED <<heap, loc, nout, log, panicking>>

LessonInit ==
    /\ Fresh
    /\ \/ Plain /\ (FibInit \/ FilterInit \/ SubInit \/ DeleteInit \/ RangeInit
                       \/ DivideInit \/ AnalyzeInit \/ ConfigInit)
       \/ DeferInit

\* a step of a slice program
SliceStep ==
    /\ \/ FilterSlice \/ FilterIter \/ FilterPrint
       \/ SubSlice \/ SubAppend \/ SubPrint
       \/ DeleteAt \/ DeletePrint
       \/ RangeIter \/ RangePrint
    /\ UNCHANGED <<restVars, loopvar>>

DivideStep == DivideCall /\ UNCHANGED <<restVars, loopvar>>

\* a step of analyzeNumber
AnalyzeStep ==
    /\ AnalyzeStart \/ AnalyzeFactor \/ AnalyzeReturn
    /\ UNCHANGED <<callVars, loopvar>>

\* a step of NewConfig
ConfigStep ==
    /\ ConfigNew \/ ConfigApply \/ ConfigPrint
    /\ UNCHANGED <<callVars, loopvar>>

LessonNext ==
    FibStep \/ SliceStep \/ DivideStep \/ DeferStep \/ AnalyzeStep \/ ConfigStep

LessonSpec == LessonInit /\ [][LessonNext]_vars

-----------------------------------------------------------------------------
(* Properties of the menu dispatcher *)

\* the runner the menu's text gives each topic token
TokenRunner(c) ==
    CASE c = "1" -> "RunArraysSlices"
      [] c = "2" -> "RunMaps"
      [] c = "3" -> "RunStructs"
      [] c = "4" -> "RunNewVsMake"
      [] c = "5" -> "RunAll"

TopicTokens == {"1", "2", "3", "4", "5"}
Tokens == TopicTokens \cup {"0"}

\* the line is the one character c with white space alone around it
IsPadded(line, c) ==
    \E k \in 1..Len(line) :
        /\ line[k] = c
        /\ \A j \in 1..Len(line) : j # k => line[j] \in WhiteSpace

IsToken(line) == \E c \in Tokens : IsPadded(line, c)

RECURSIVE DirectCalls(_, _)
\* the runners called from main itself: the call events at nesting depth 0
DirectCalls(cs, depth) ==
    IF cs = <<>> THEN <<>>
    ELSE IF Head(cs)[1] = "call"
    THEN (IF depth = 0 THEN <<Head(cs)[2]>> ELSE <<>>) \o DirectCalls(Tail(cs), depth + 1)
    ELSE DirectCalls(Tail(cs), depth - 1)

InvalidMsg == <<"Invalid choice. Please enter 0-5.">>

\* C1: the line read at the menu prompt, trimmed, selects exactly the runner of
\* its token: once "1".."5" has been read main calls that runner and only that
\* one, and it has called it exactly once when the switch is left; once "0" has
\* been read no runner is called.
C1_TokenSelectsItsRunner ==
    /\ \A c \in TopicTokens :
         (lastAt = "choice" /\ IsPadded(lastLine, c))
             => pc = "run" /\ todo = <<Call(TokenRunner(c))>> /\ calls = <<>>
    /\ \A c \in TopicTokens :
         (pc = "run" /\ input = <<c>>)
             => /\ \/ DirectCalls(calls, 0) = <<>> /\ todo = <<Call(TokenRunner(c))>>
                   \/ DirectCalls(calls, 0) = <<TokenRunner(c)>>
                /\ todo = <<>> => calls[Len(calls)] = <<"ret", TokenRunner(c)>>
    /\ (lastAt = "choice" /\ IsPadded(lastLine, "0"))
             => pc = "exited" /\ calls = <<>> /\ todo = <<>>
    /\ pc = "run" => \E c \in TopicTokens : input = <<c>>

C1_Witness ==
    /\ pc = "run" /\ todo = <<>> /\ input = <<"3">>
    /\ calls = << <<"call", "RunStructs">>, <<"ret", "RunStructs">> >>

\* C2 as stated: whenever a line has been read whose trimmed value is none of
\* the six tokens, the invalid-choice message has been printed for it.
C2_Original ==
    (lastLine # NoLine /\ ~IsToken(lastLine)) => emit = InvalidMsg

\* C2 amended: a line read at the menu prompt whose trimmed value is none of the
\* six tokens gets the invalid-choice message, no runner is called for it and
\* main does not return; a line read at the Press ENTER prompt is discarded
\* whatever it holds, with no message; and after the invalid-choice message the
\* menu is displayed again (once that further line has been read).
C2_InvalidAtMenuPrompt ==
    /\ []((lastAt = "choice" /\ ~IsToken(lastLine))
            => /\ pc = "after" /\ emit = InvalidMsg
               /\ calls = <<>> /\ todo = <<>>)
    /\ [](lastAt = "pause" => pc = "menu" /\ emit # InvalidMsg)
    /\ [](pc = "after" => emit = InvalidMsg /\ calls = <<>> /\ todo = <<>>)
    /\ ((pc = "after") ~> (pc = "pause"))
    /\ ((pc = "after") ~> (pc = "read" /\ reads = 0))

C2_Witness ==
    pc = "after" /\ lastLine = <<"6", "\n">> /\ emit = InvalidMsg

\* C3 as stated: whenever a line that trims to "0" has been read from standard
\* input, the program has terminated.
C3_Original ==
    (lastLine # NoLine /\ IsPadded(lastLine, "0")) => pc = "exited"

\* C3 amended: the program terminates exactly when a line that trims to "0" is
\* read at the menu prompt; such a line read at the Press ENTER prompt is
\* discarded and the loop goes on.
C3_ExitAtMenuPrompt ==
    /\ (lastAt = "choice" /\ IsPadded(lastLine, "0")) => pc = "exited"
    /\ pc = "exited" => lastAt = "choice" /\ IsPadded(lastLine, "0")
    /\ lastAt = "pause" => pc = "menu"

C3_Witness ==
    pc = "exited" /\ lastLine = <<" ", "0", "\n">> /\ emit = <<"Happy coding!">>

\* C4 as stated: since the menu was last displayed at most one line has been
\* read, and every line read has been compared with the tokens.
C4_Original ==
    reads <= 1 /\ compared = reads

\* C4 amended: between one display of the menu and the next exactly two lines
\* are read: the first is compared with the six tokens, the second is read at
\* the Press ENTER prompt after the runner or the invalid-choice message and is
\* compared with nothing.
C4_TwoReadsPerDisplay ==
    /\ pc = "read" => reads = 0 /\ compared = 0
    /\ pc \in {"run", "after", "pause", "exited"} => reads = 1 /\ compared = 1
    /\ pc = "menu" => \/ reads = 0 /\ compared = 0 /\ lastAt = "none"
                      \/ reads = 2 /\ compared = 1 /\ lastAt = "pause"
    /\ lastAt = "choice" => reads = 1
    /\ lastAt = "pause" => reads = 2

C4_Witness ==
    pc = "menu" /\ reads = 2 /\ compared = 1 /\ lastLine = <<"1", "\n">>

\* C5: the line is matched by string equality after the white space around it is
\* removed: a topic is selected exactly when the line is its token with white
\* space alone around it, the program exits exactly when it is "0" so padded,
\* and every other line ("01", "+1", "1.0", "6", ...) is invalid.
C5_ExactMatchAfterTrim ==
    lastAt = "choice" =>
        /\ \A c \in TopicTokens :
             IsPadded(lastLine, c) <=> (pc = "run" /\ todo = <<Call(TokenRunner(c))>>)
        /\ IsPadded(lastLine, "0") <=> pc = "exited"
        /\ ~IsToken(lastLine) <=> (pc = "after" /\ emit = InvalidMsg)
        /\ lastLine \in {<<"0", "1">>, <<"+", "1">>, <<"1", ".", "0">>, <<"6">>,
                          <<"0", "1", "\n">>, <<"+", "1", "\n">>, <<"6", "\n">>,
                          <<"1", ".", "0", "\n">>}
             => pc = "after"
        /\ lastLine \in {<<" ", "1", " ", "\n">>, <<"1", "\r", "\n">>}
             => todo = <<Call("RunArraysSlices")>>

C5_Witness ==
    /\ lastLine = <<"1", "\r", "\n">> /\ input = <<"1">>
    /\ pc = "run" /\ todo = <<Call("RunArraysSlices")>>

-----------------------------------------------------------------------------
(* Properties of the runners and the demonstration functions *)

\* a statement whose output or effect the program text does not fix: a printed
\* address, a range over a map of two or more entries, a file operation
Unfixed(h) ==
    \/ h.k = "ptr"
    \/ h.k \in {"range", "for"} /\ Len(h.m) >= 2
    \/ h.k \in {"writeFile", "openFile", "readFile"}

RECURSIVE Fixed(_)
\* no statement of f, or of a function f calls, is Unfixed
Fixed(f) ==
    \A j \in 1..Len(Body(f)) :
        IF Body(f)[j].k = "call" THEN Fixed(Body(f)[j].a) ELSE ~Unfixed(Body(f)[j])

Returned == pc = "done" \/ (pc = "test" /\ todo = <<>>)

\* C6 as stated: for every demonstration function, the chunk the second call
\* writes at any place of its output is the chunk the first call wrote there.
C6_Original ==
    again # NoChunk => again = obs.out

\* C6 amended: a demonstration function that prints no pointer value, does not
\* range over a map of two or more entries and does no file operation writes
\* the same output in both calls: at every place the second call writes what
\* the first wrote there, and it writes at every place the first wrote at.
C6_FixedFunctionsDeterministic ==
    (fn \in Demos /\ Fixed(fn)) =>
        /\ again # NoChunk => again = obs.out
        /\ (pc = "done" /\ obs # None) => again = obs.out

C6_Witness ==
    /\ pc = "done" /\ fn = "MapOperations"
    /\ obs.out = <<"After inserts: %v", "Alice", "95", "Bob", "87", "Charlie", "92">>
    /\ again = obs.out

RunAllEvents ==
    << <<"call", "RunAll">>,
       <<"call", "RunArraysSlices">>, <<"ret", "RunArraysSlices">>,
       <<"call", "RunMaps">>, <<"ret", "RunMaps">>,
       <<"call", "RunStructs">>, <<"ret", "RunStructs">>,
       <<"call", "RunNewVsMake">>, <<"ret", "RunNewVsMake">>,
       <<"ret", "RunAll">> >>

IsPrefix(a, b) == Len(a) <= Len(b) /\ SubSeq(b, 1, Len(a)) = a

Banner == <<"ALL EXAMPLES COMPLETED!">>

\* C8: after "5" the runner events are those of RunAll: each of the four topic
\* runners is called once, in the order RunArraysSlices, RunMaps, RunStructs,
\* RunNewVsMake, each returning before the next is called; the completion
\* banner is written only when RunNewVsMake has returned.
C8_RunAllOrder ==
    /\ (pc = "run" /\ input = <<"5">>) => IsPrefix(calls, RunAllEvents)
    /\ (pc = "run" /\ input = <<"5">> /\ todo = <<>>) => calls = RunAllEvents
    /\ emit = Banner =>
          /\ pc = "run" /\ input = <<"5">>
          /\ Len(calls) >= Len(RunAllEvents) - 1

C8_Witness ==
    /\ pc = "run" /\ emit = Banner
    /\ calls = SubSeq(RunAllEvents, 1, Len(RunAllEvents) - 1)

\* C9: nothing of a runner is left when the menu is displayed or a choice is
\* read, whatever ran before; every call of MapPatternCache starts fib(10) on an
\* empty cache, so every call reports the cache hits fib(2)..fib(8) and the
\* result 55, a later call as the first.
C9_NoStateAcrossCalls ==
    /\ pc \in {"menu", "read"}
          => /\ todo = <<>> /\ dstack = <<>> /\ fibStack = <<>>
             /\ i = 0 /\ panicking = NoPanic /\ files = NoFiles
    /\ (Running /\ top.k = "fib" /\ ret = NoRet) => cache = <<>> /\ hits = <<>>
    /\ (Running /\ top.k = "printCache")
          => hits = <<2, 3, 4, 5, 6, 7, 8>> /\ ret = 55 /\ DOMAIN cache = 2..FibN

C9_Witness ==
    /\ prior /\ pc = "run" /\ input = <<"2">>
    /\ Running /\ top.k = "printCache"
    /\ hits = <<2, 3, 4, 5, 6, 7, 8>>

\* C10: once a topic token has been read the selected runner returns (the
\* Press ENTER prompt is reached with nothing of it left), its loop counters
\* and the depth of the fib recursion staying within their bounds; and as
\* reads of standard input return, the menu is displayed again.
C10_RunnersTerminate ==
    /\ [](i <= GrowN /\ Len(fibStack) <= FibN)
    /\ ((pc = "run") ~> (pc = "pause" /\ todo = <<>> /\ fibStack = <<>>))
    /\ ((pc = "run") ~> (pc = "read" /\ reads = 0))

C10_Witness ==
    /\ pc = "run" /\ todo = <<>> /\ fibStack = <<>> /\ i = 0
    /\ calls = << <<"call", "RunArraysSlices">>, <<"ret", "RunArraysSlices">> >>

\* C11: once standard input is exhausted with no exit token read, the dispatcher
\* never exits and never waits: every later read returns the empty string at
\* once, the read at the menu prompt takes it as an invalid choice, the read
\* after the Press ENTER prompt discards it, and the menu comes back again and
\* again.
C11_EofLoopsForever ==
    /\ [][(eof /\ pc # "exited") => (eof' /\ pc' # "exited")]_vars
    /\ [][(eof /\ pc = "read")
            => /\ lastLine' = <<>> /\ input' = <<>>
               /\ pc' = "after" /\ emit' = InvalidMsg /\ todo' = <<>>]_vars
    /\ ((eof /\ pc # "exited") ~> (eof /\ pc = "menu"))
    /\ ((eof /\ pc = "menu") ~> (eof /\ pc = "after" /\ emit = InvalidMsg))

C11_Witness ==
    /\ eof /\ pc = "after" /\ lastAt = "choice" /\ lastLine = <<>>
    /\ input = <<>> /\ emit = InvalidMsg

-----------------------------------------------------------------------------
(* Properties of the lesson programs *)

RECURSIVE Fibonacci(_)
\* the Fibonacci numbers: F(0) = 0, F(1) = 1, F(n) = F(n-1) + F(n-2)
Fibonacci(n) == IF n <= 1 THEN n ELSE Fibonacci(n - 1) + Fibonacci(n - 2)

\* the outermost call of fib has returned
FibDone == pc = "fib" /\ fibStack = <<>>

\* s holds no value twice
NoRepeat(s) == \A a, b \in DOMAIN s : a # b => s[a] # s[b]

C14_StoreOnceHitOnce ==
    /\ pc = "fib" => NoRepeat(stored) /\ NoRepeat(hits)
    /\ FibDone => /\ hits = [j \in 1..(IF loc.n >= 4 THEN loc.n - 3 ELSE 0) |-> j + 1]
                  /\ {stored[j] : j \in DOMAIN stored} = 2..loc.n
    /\ (FibDone /\ loc.n = 10) => hits = <<2, 3, 4, 5, 6, 7, 8>>
    /\ (pc = "fib" /\ hits # <<>>)
          => emit = <<"  Cache hit for fib(" \o ToString(hits[Len(hits)]) \o ")">>

C14_Witness ==
    /\ FibDone /\ loc.n = 10
    /\ hits = <<2, 3, 4, 5, 6, 7, 8>>
    /\ stored = <<2, 3, 4, 5, 6, 7, 8, 9, 10>>
    /\ emit = <<"  Cache hit for fib(8)">>

\* the predicate of the filter, as the lesson states it
Over5(x) == x > 5

\* sequence s without its element at 0-based index k
Without(s, k) == SubSeq(s, 1, k) \o SubSeq(s, k + 2, Len(s))

\* C15: the in-place filter yields exactly the elements > 5 of the original
\* sequence in their order: filtered shares the array of numbers, after each
\* iteration it holds the elements > 5 among those read, the number written is
\* at most the number read, and the elements not yet read are still the
\* original ones; at the end numbers itself holds the kept elements followed by
\* what is left of the original (6..10 twice for the lesson's 1..10).
C15_InPlaceFilter ==
    (loc.prog = "filter" /\ pc # "filter:slice")
      => /\ loc.filtered.arr = loc.numbers.arr
         /\ loc.filtered.len <= loc.r
         /\ \A j \in (loc.r + 1)..Len(loc.orig) : heap[loc.numbers.arr][j] = loc.orig[j]
         /\ Elems(heap, loc.filtered) = SelectSeq(SubSeq(loc.orig, 1, loc.r), Over5)
         /\ pc = "done"
              => /\ Elems(heap, loc.filtered) = SelectSeq(loc.orig, Over5)
                 /\ Elems(heap, loc.numbers)
                      = Elems(heap, loc.filtered)
                          \o SubSeq(loc.orig, loc.filtered.len + 1, Len(loc.orig))
                 /\ loc.orig = FilterDemo
                      => Elems(heap, loc.numbers) = <<6, 7, 8, 9, 10, 6, 7, 8, 9, 10>>

C15_Witness ==
    /\ loc.prog = "filter" /\ pc = "done" /\ loc.orig = FilterDemo
    /\ Elems(heap, loc.filtered) = <<6, 7, 8, 9, 10>>
    /\ Elems(heap, loc.numbers) # loc.orig
    /\ emit = <<"Numbers > 5 (in-place): %v", "6", "7", "8", "9", "10">>

\* the sub-slice program has appended
SubAppended == loc.prog = "sub" /\ pc \in {"sub:print", "done"}

\* C16: an append to a sub-slice original[0:hi] shorter than original writes
\* the element after the sub-slice's end in the array both share: original
\* keeps its length and has 999 at index hi, sub is the first hi elements and
\* 999; for [1,2,3,4,5] and hi = 2, original is [1,2,999,4,5], sub [1,2,999].
C16_AppendWritesSharedArray ==
    (SubAppended /\ ~loc.full /\ loc.hi < Len(loc.orig))
      => /\ loc.sub.arr = loc.original.arr
         /\ loc.original.len = Len(loc.orig)
         /\ Elems(heap, loc.original) = [loc.orig EXCEPT ![loc.hi + 1] = Appended]
         /\ Elems(heap, loc.sub) = Append(SubSeq(loc.orig, 1, loc.hi), Appended)
         /\ (loc.orig = GotchaDemo /\ loc.hi = SubHigh)
              => /\ Elems(heap, loc.original) = <<1, 2, 999, 4, 5>>
                 /\ Elems(heap, loc.sub) = <<1, 2, 999>>

C16_Witness ==
    /\ loc.prog = "sub" /\ pc = "done" /\ ~loc.full
    /\ loc.orig = GotchaDemo /\ loc.hi = SubHigh
    /\ emit = <<"Original: %v", "1", "2", "999", "4", "5", "Sub: %v", "1", "2", "999">>

\* C17: an append to a sub-slice taken with the full slice expression
\* original2[0:hi:hi] allocates a new array: the sub-slice no longer shares
\* the array of original2, original2 is unchanged, and the sub-slice is the
\* first hi elements and 999 ([1,2,3,4,5] and [1,2,999] in the lesson).
C17_FullSliceExprCopies ==
    /\ (loc.prog = "sub" /\ pc = "sub:append" /\ loc.full) => loc.sub.cap = loc.sub.len
    /\ (SubAppended /\ loc.full)
         => /\ loc.sub.arr # loc.original.arr
            /\ loc.original.len = Len(loc.orig)
            /\ Elems(heap, loc.original) = loc.orig
            /\ Elems(heap, loc.sub) = Append(SubSeq(loc.orig, 1, loc.hi), Appended)
            /\ (loc.orig = GotchaDemo /\ loc.hi = SubHigh)
                 => Elems(heap, loc.sub) = <<1, 2, 999>>

C17_Witness ==
    /\ loc.prog = "sub" /\ pc = "done" /\ loc.full
    /\ loc.orig = GotchaDemo /\ loc.hi = SubHigh
    /\ emit = <<"Original: %v", "1", "2", "3", "4", "5", "Sub: %v", "1", "2", "999">>

\* the values reached through the pointers the range loop collected
Pointees == [j \in 1..Len(loc.pointers) |-> heap[loc.pointers[j]][1]]

\* C18 as stated: after the range loop over [1,2,3] that appends &num, all the
\* pointers are the same and give the same value three times; after the loop
\* with num := num the pointers are distinct and give 1, 2, 3.
C18_Original ==
    (loc.prog = "range" /\ pc = "done" /\ loc.orig = RangeDemo)
      => IF loc.copy
         THEN NoRepeat(loc.pointers) /\ Pointees = <<1, 2, 3>>
         ELSE /\ \A a, b \in 1..3 : loc.pointers[a] = loc.pointers[b]
              /\ \A a, b \in 1..3 : Pointees[a] = Pointees[b]

\* the loop that appends &num prints 1 2 3 under its label
C18_Witness ==
    /\ loc.prog = "range" /\ pc = "done" /\ loc.orig = RangeDemo /\ ~loc.copy
    /\ loopvar = "fresh"
    /\ NoRepeat(loc.pointers)
    /\ emit = <<"Values via pointers (WRONG): ", "1", "2", "3">>

\* C19: slice = append(slice[:i], slice[i+1:]...) yields, for every index i of
\* the slice, a slice one element shorter holding the other elements in their
\* order, in the same array; index 2 deleted from [10, 20, ..., 110] gives
\* [10, 20, 40, ..., 110].
C19_DeleteIndex ==
    (loc.prog = "delete" /\ pc \in {"delete:print", "done"})
      => /\ loc.slice.len = Len(loc.orig) - 1
         /\ Elems(heap, loc.slice) = Without(loc.orig, loc.idx)
         /\ (Len(loc.orig) = 11 /\ loc.idx = deleteIndex)
              => Elems(heap, loc.slice) = <<10, 20, 40, 50, 60, 70, 80, 90, 100, 110>>

C19_Witness ==
    /\ loc.prog = "delete" /\ pc = "done" /\ loc.idx = deleteIndex
    /\ loc.orig = <<10, 20, 30, 40, 50, 60, 70, 80, 90, 100, 110>>
    /\ emit = <<"After deleting index 2: %v",
                "10", "20", "40", "50", "60", "70", "80", "90", "100", "110">>

\* C20 as stated: when the divisor is 0, divide prints the division-by-zero
\* error and returns quotient 0 and remainder 0, whatever the dividend.
C20_Original ==
    (loc.prog = "divide" /\ pc = "done" /\ loc.divisor = 0)
      => /\ emit = <<"Error: Division by zero">>
         /\ loc.quotient = 0 /\ loc.remainder = 0

\* divide(17, 0) has printed the error and returned 0 and 17
C20_Witness ==
    /\ loc.prog = "divide" /\ pc = "done" /\ loc.dividend = 17 /\ loc.divisor = 0
    /\ emit = <<"Error: Division by zero">>
    /\ loc.quotient = 0 /\ loc.remainder = 17

\* the chunks of lines printed one by one
Lines(texts) == [j \in 1..Len(texts) |-> <<texts[j]>>]

\* example f, called on its own, is running or has returned
Example(f) == loc.prog = "defer" /\ loc.f = f

\* the called example has returned
Ended == pc = "defer" /\ todo = <<>>

\* what simpleDeferExample and resourceCleanupExample print, in order
SimpleOrder ==
    Lines(<< "Function started", "Function ending",
             "Third defer (executed firsttttt)", "Third defer (executed first)",
             "Second defer", "First defer (executed last)" >>)
CleanupOrder ==
    Lines(<< "Setting up resources...", "Working with resources...",
             "Done with resources", "Closing network connection...",
             "Closing file handle...", "Closing database connection..." >>)

\* C23: the deferred calls of a function run after the last statement of its
\* body, the last registered first: what simpleDeferExample has printed is at
\* every moment a beginning of: Function started, Function ending, then its
\* four deferred lines in reverse order of registration, and all of it when it
\* has returned; likewise resourceCleanupExample prints its three body lines,
\* then network connection, file handle, database connection.
C23_DefersRunLastInFirstOut ==
    /\ Example("simpleDeferExample")
         => /\ IsPrefix(log, SimpleOrder)
            /\ Ended => log = SimpleOrder
    /\ Example("resourceCleanupExample")
         => /\ IsPrefix(log, CleanupOrder)
            /\ Ended => log = CleanupOrder
    /\ (pc = "defer" /\ dstack # <<>> /\ Head(dstack) # <<>>) => todo # <<>>

C23_Witness ==
    /\ Example("resourceCleanupExample") /\ Ended
    /\ log = CleanupOrder
    /\ emit = <<"Closing database connection...">>

\* what deferWithParametersExample prints
ParametersOrder ==
    Lines(<< "Inside function, after defer setup",
             "Deferred message: Original message" >>)

\* C24: the argument of the deferred printMessage call is the value message
\* had at the defer statement: deferWithParametersExample prints Inside
\* function, after defer setup and then Deferred message: Original message,
\* although message is Changed message when the deferred call runs.
C24_DeferArgumentEvaluatedAtDefer ==
    /\ Example("deferWithParametersExample")
         => /\ IsPrefix(log, ParametersOrder)
            /\ Ended => log = ParametersOrder
    /\ (Example("deferWithParametersExample") /\ todo # <<>> /\ top.k = "printVar")
         => /\ Head(env)["msg"] = "Original message"
            /\ env[2]["message"] = "Changed message"

C24_Witness ==
    /\ Example("deferWithParametersExample") /\ todo # <<>> /\ top.k = "ret"
    /\ top.a = "printMessage"
    /\ env[2]["message"] = "Changed message"
    /\ log = ParametersOrder

\* what panicRecoveryExample prints
RecoveryOrder ==
    Lines(<< "About to cause a panic...",
             "Recovered from panic: Something went wrong!",
             "Program continues after recovery" >>)

\* C25: the panic of safeFunction is caught by its deferred recover: the
\* statement after the panic never runs, the recovery message is printed once,
\* and the caller goes on: panicRecoveryExample prints About to cause a
\* panic..., the recovery message, Program continues after recovery, and
\* returns with no panic in progress, to main as well.
C25_PanicRecovered ==
    /\ Example("panicRecoveryExample")
         => /\ IsPrefix(log, RecoveryOrder)
            /\ Ended => log = RecoveryOrder /\ panicking = NoPanic
    /\ (Example("deferMain") /\ Ended)
         => /\ panicking = NoPanic
            /\ SubSeq(log, Len(log) - 2, Len(log)) = RecoveryOrder
    /\ pc = "defer" => \A j \in DOMAIN log : log[j] # <<"This will not print">>

C25_Witness ==
    /\ Example("panicRecoveryExample") /\ Ended
    /\ log = RecoveryOrder /\ panicking = NoPanic

\* divide has returned
Divided == loc.prog = "divide" /\ pc = "done"

Divisors(n) == SelectSeq([j \in 1..n |-> j], LAMBDA d : n % d = 0)

\* C22 as stated: analyzeNumber(n) returns (false, empty list) for every
\* n <= 1, and for every n >= 2 the ascending list of all positive divisors of
\* n, with the flag true exactly when the list is [1, n].
C22_Original ==
    (loc.prog = "analyze" /\ pc = "done")
      => /\ panicking = NoPanic
         /\ IF loc.n <= 1
            THEN ~loc.isPrime /\ loc.factors = <<>>
            ELSE /\ loc.factors = Divisors(loc.n)
                 /\ loc.isPrime <=> loc.factors = <<1, loc.n>>

\* analyzeNumber of the largest int: after the divisors of n the loop has gone
\* on through the negative ints and ended in the division by zero
C22_Witness ==
    /\ loc.prog = "analyze" /\ pc = "done" /\ loc.n = MaxInt
    /\ panicking = DivideByZero
    /\ SubSeq(loc.factors, 1, Len(Divisors(MaxInt))) = Divisors(MaxInt)
    /\ loc.factors[Len(loc.factors)] = 0 - 1

\* the argument of the last option of the given kind among the first r, or the default
RECURSIVE LastOf(_, _, _, _)
LastOf(opts, r, kind, default) ==
    IF r = 0 THEN default
    ELSE IF opts[r].fn = kind THEN opts[r].arg
    ELSE LastOf(opts, r - 1, kind, default)

\* C26: NewConfig starts from Host localhost, Port 8080, Timeout 30, Debug
\* false and applies the options in argument order, each changing its own
\* field only: after the first r options every field holds the argument of the
\* last of them that sets it, or its default when none does, and Timeout, which
\* no option sets, stays 30.
C26_OptionsInOrder ==
    /\ (loc.prog = "config" /\ pc = "config:range" /\ loc.r = 0)
         => heap[loc.config] = [Host |-> "localhost", Port |-> 8080,
                                Timeout |-> 30, Debug |-> FALSE]
    /\ (loc.prog = "config" /\ pc # "config:new")
         => LET c == heap[loc.config]
            IN  /\ c.Host = LastOf(loc.opts, loc.r, "WithHost", "localhost")
                /\ c.Port = LastOf(loc.opts, loc.r, "WithPort", 8080)
                /\ c.Debug = LastOf(loc.opts, loc.r, "WithDebug", FALSE)
                /\ c.Timeout = 30
                /\ pc = "done" => loc.r = Len(loc.opts)

C26_Witness ==
    /\ loc.prog = "config" /\ pc = "done"
    /\ loc.opts = <<WithPort(80), WithHost("example.com"), WithPort(9090)>>
    /\ heap[loc.config] = [Host |-> "example.com", Port |-> 9090,
                           Timeout |-> 30, Debug |-> FALSE]
    /\ emit = <<"Config: {Host:example.com Port:9090 Timeout:30 Debug:false}">>

====
